---- MODULE Spec2Model ----
(***************************************************************************)
(* Model of the ask-answer-hub store (tables, row-level security policies, *)
(* triggers and foreign keys of supabase/migrations), of the client        *)
(* handlers that mutate it, and of the notify-department-admins function.  *)
(*                                                                         *)
(* Every request of the client is one PostgREST call, i.e. one database    *)
(* transaction.  Vote statements are modelled at the granularity of the    *)
(* statements their trigger runs (READ COMMITTED: a row UPDATE locks the   *)
(* row until commit and reads its latest committed version); the other     *)
(* statements are single steps that wait for the row locks they need.      *)
(***************************************************************************)
EXTENDS Integers, Sequences, FiniteSets, TLC

(* ---- bounds of the model ---- *)
MaxUsers == 2
MaxQuestions == 2
MaxDepts == 1
MaxVoteOps == 2
MaxInvokes == 1
MaxAnswers == 1
MaxComments == 1
MaxAuthEvents == 2

NULL == 0

UserIds == 1..MaxUsers
QuestionIds == 1..MaxQuestions
DeptIds == 1..MaxDepts

Roles == {"admin", "responder", "employee"}
VoteTypes == {"up", "down"}
Statuses == {"open", "answered", "closed"}

VARIABLES
    users,              \* auth.users: ids of the existing users
    nextUser,           \* next fresh user id (uuids are never reused)
    profiles,           \* public.profiles: user ids that have a profile row
    user_roles,         \* public.user_roles: set of <<user_id, role>>
    departments,        \* public.departments: ids
    department_admins,  \* public.department_admins: set of <<user_id, department_id>>
    questions,          \* public.questions: id -> row (committed)
    nextQuestion,       \* next fresh question id
    votes,              \* public.votes: set of rows (committed)
    answers,            \* public.answers: id -> row
    nextAnswer,         \* next fresh answer id
    rolesAtPost,        \* history: per answer, the users who held responder or admin
                        \* when it was posted
    comments,           \* public.comments: id -> row
    nextComment,        \* next fresh comment id
    txn,                \* per user: the vote transaction in flight
    nVoteOps,           \* vote statements begun so far
    resp,               \* response of the last request served in one step
    reqs,               \* invocations of the notification functions not yet served
    nInvokes,           \* invocations made so far
    d,                  \* the invocation being served: the handler's locals
    mail,               \* email transport: the send attempts made, <<invocation, user_id, ok>>
    ctl,                \* per user: the VoteButtons control of the page the user has open
    auth,               \* one browser: the auth client's session and the AuthProvider state
    voteLog             \* history: the handleVote calls that sent a statement, in order

storeVars == <<users, nextUser, profiles, user_roles, departments, department_admins,
               questions, nextQuestion, votes, answers, nextAnswer, rolesAtPost,
               comments, nextComment>>
answerVars == <<answers, nextAnswer, rolesAtPost>>
commentVars == <<comments, nextComment>>
voteTxnVars == <<txn, nVoteOps>>
dispatchVars == <<reqs, nInvokes, d, mail>>
clientVars == <<ctl, auth, voteLog>>
vars == <<storeVars, voteTxnVars, resp, dispatchVars, clientVars>>

(* ---- rows ---- *)
NoRow == [question_id |-> NULL, user_id |-> NULL, vote_type |-> "none"]

VoteRow(q, u, t) == [question_id |-> q, user_id |-> u, vote_type |-> t]

QuestionRow(dept, anon, author) ==
    [department_id |-> dept, is_anonymous |-> anon, author_id |-> author,
     status |-> "open", upvotes |-> 0, downvotes |-> 0]

\* A VoteButtons control: the question it shows, its userVote prop (the vote the page
\* fetched last), its isVoting flag and the error of the statement it awaits.
NoControl == [q |-> NULL, userVote |-> "none", isVoting |-> FALSE, error |-> "ok"]

\* The AuthProvider as mounted (useState defaults), over the auth client's session:
\* neither the INITIAL_SESSION event nor getSession() has been handled, no fetchProfile
\* call is pending; n counts the sign-ins, sign-outs and page loads so far.
Mounted(session, n) ==
    [session |-> session, user |-> NULL, profile |-> NULL, isAdmin |-> FALSE,
     isResponder |-> FALSE, isLoading |-> TRUE, initial |-> FALSE, checked |-> FALSE,
     fetches |-> {}, n |-> n]

IdleTxn ==
    [pc |-> "idle", op |-> "none", old |-> NoRow, new |-> NoRow, todo |-> <<>>, pend |-> <<>>]

\* The response to a request: its operation and result code ("ok", "none" when the
\* policies let it touch no row, else the error code).  A request that changed nothing
\* is kept with its caller and argument (a one-element sequence); the effect of the
\* others is in the store.
Response(op, by, arg, code) ==
    IF code = "ok" THEN [op |-> op, by |-> NULL, arg |-> <<>>, code |-> code]
                   ELSE [op |-> op, by |-> by, arg |-> <<arg>>, code |-> code]

(* ---- role checks used by the policies ---- *)
has_role(_user_id, _role) == <<_user_id, _role>> \in user_roles

is_admin_or_responder(_user_id) ==
    \E r \in {"admin", "responder"} : <<_user_id, r>> \in user_roles

(* ---- vote counters ---- *)
Counter(t) == IF t = "up" THEN "upvotes" ELSE "downvotes"

CounterUpdate(q, t, delta) == [q |-> q, col |-> Counter(t), delta |-> delta]

\* Variant of the trigger whose UPDATE branch decrements the counter of the row's
\* new question instead of OLD.question_id.
update_question_votes_new_question(TG_OP, OLD_ROW, NEW_ROW) ==
    IF TG_OP = "INSERT" THEN
        <<CounterUpdate(NEW_ROW.question_id, NEW_ROW.vote_type, 1)>>
    ELSE IF TG_OP = "DELETE" THEN
        <<CounterUpdate(OLD_ROW.question_id, OLD_ROW.vote_type, -1)>>
    ELSE IF TG_OP = "UPDATE" THEN
        <<CounterUpdate(NEW_ROW.question_id, OLD_ROW.vote_type, -1),
          CounterUpdate(NEW_ROW.question_id, NEW_ROW.vote_type, 1)>>
    ELSE <<>>

\* Variant of the trigger whose UPDATE branch increments the new counter only when the
\* vote type is unchanged, so a changed vote is just taken off its old counter.
update_question_votes_no_increment(TG_OP, OLD_ROW, NEW_ROW) ==
    IF TG_OP = "INSERT" THEN
        <<CounterUpdate(NEW_ROW.question_id, NEW_ROW.vote_type, 1)>>
    ELSE IF TG_OP = "DELETE" THEN
        <<CounterUpdate(OLD_ROW.question_id, OLD_ROW.vote_type, -1)>>
    ELSE IF TG_OP = "UPDATE" THEN
        IF OLD_ROW.vote_type = NEW_ROW.vote_type
            THEN <<CounterUpdate(OLD_ROW.question_id, OLD_ROW.vote_type, -1),
                   CounterUpdate(NEW_ROW.question_id, NEW_ROW.vote_type, 1)>>
            ELSE <<CounterUpdate(OLD_ROW.question_id, OLD_ROW.vote_type, -1)>>
    ELSE <<>>

\* The UPDATE statements public.update_question_votes() runs, in order.
update_question_votes(TG_OP, OLD_ROW, NEW_ROW) ==
    IF TG_OP = "INSERT" THEN
        <<CounterUpdate(NEW_ROW.question_id, NEW_ROW.vote_type, 1)>>
    ELSE IF TG_OP = "DELETE" THEN
        <<CounterUpdate(OLD_ROW.question_id, OLD_ROW.vote_type, -1)>>
    ELSE IF TG_OP = "UPDATE" THEN
        <<CounterUpdate(OLD_ROW.question_id, OLD_ROW.vote_type, -1),
          CounterUpdate(NEW_ROW.question_id, NEW_ROW.vote_type, 1)>>
    ELSE <<>>

\* UPDATE public.questions SET col = col + delta WHERE id = q, on the row version `row`.
SetCounter(row, col, delta) ==
    IF col = "upvotes" THEN [row EXCEPT !.upvotes = @ + delta]
                       ELSE [row EXCEPT !.downvotes = @ + delta]

\* A whole sequence of trigger updates applied to a questions table (no row: no-op).
RECURSIVE ApplyCounterUpdates(_, _)
ApplyCounterUpdates(qs, ups) ==
    IF ups = <<>> THEN qs
    ELSE LET h == Head(ups) IN
         ApplyCounterUpdates(
            IF h.q \in DOMAIN qs
                THEN [qs EXCEPT ![h.q] = SetCounter(@, h.col, h.delta)]
                ELSE qs,
            Tail(ups))

\* The trigger updates of deleting every row of a set of vote rows, one row at a time.
RECURSIVE DeleteTriggerUpdates(_)
DeleteTriggerUpdates(rows) ==
    IF rows = {} THEN <<>>
    ELSE LET r == CHOOSE x \in rows : TRUE IN
         update_question_votes("DELETE", r, NoRow) \o DeleteTriggerUpdates(rows \ {r})

(* ---- row locks of the transactions in flight ---- *)
\* The transactions that hold the row lock of question q (they updated it).
Holders(q) == {u \in UserIds : q \in DOMAIN txn[u].pend}

\* Variant without row locking: the counter is written from the version read, whoever
\* else has written the row.
CanLockRow_unlocked(q, u) == TRUE

\* An UPDATE of question q by transaction u waits while another transaction holds the row.
CanLockRow(q, u) == Holders(q) \subseteq {u}

\* A question row is referenced by an uncommitted vote row (FOR KEY SHARE lock).
Referenced(q) ==
    \E u \in UserIds : txn[u].pc # "idle" /\ q \in {txn[u].old.question_id, txn[u].new.question_id}

InFlight == {u \in UserIds : txn[u].pc # "idle"}

(* ---- notification function: the run being served ---- *)
\* No question object: the body has no question (payload), no row was read (store).
NoQuestion ==
    [id |-> NULL, department_id |-> NULL, is_anonymous |-> FALSE, author_id |-> NULL,
     text |-> "none"]

\* The locals of the handler before a request is served.  fn tells the two handlers of
\* the repository apart: "notify" verifies its caller, "variant" does not.
IdleRun ==
    [pc |-> "idle", id |-> 0, fn |-> "none", token |-> NULL, origin |-> "none",
     question |-> NoQuestion, user |-> NULL, questionData |-> NoQuestion,
     departmentAdmins |-> {}, adminProfiles |-> {}, authorName |-> "Anonymous",
     todo |-> {}, results |-> {}, status |-> 0, message |-> "", successCount |-> 0,
     total |-> 0, err |-> "none"]

(* ---- initial state: migrations applied, one bootstrap administrator ---- *)
Init ==
    /\ users = {1}
    /\ nextUser = 2
    /\ profiles = {1}
    /\ user_roles = {<<1, "employee">>, <<1, "admin">>}
    /\ departments = DeptIds
    /\ department_admins = {}
    /\ questions = <<>>
    /\ nextQuestion = 1
    /\ votes = {}
    /\ answers = <<>>
    /\ nextAnswer = 1
    /\ rolesAtPost = <<>>
    /\ comments = <<>>
    /\ nextComment = 1
    /\ txn = [u \in UserIds |-> IdleTxn]
    /\ nVoteOps = 0
    /\ resp = Response("none", NULL, NULL, "")
    /\ reqs = {}
    /\ nInvokes = 0
    /\ d = IdleRun
    /\ mail = {}
    /\ ctl = [u \in UserIds |-> NoControl]
    /\ auth = Mounted(NULL, 0)
    /\ voteLog = <<>>

(* ---- sign-up: trigger on_auth_user_created / handle_new_user ---- *)
SignUp ==
    /\ nextUser <= MaxUsers
    /\ users' = users \cup {nextUser}
    /\ profiles' = profiles \cup {nextUser}
    /\ user_roles' = user_roles \cup {<<nextUser, "employee">>}
    /\ nextUser' = nextUser + 1
    /\ resp' = Response("signup", nextUser, NULL, "ok")
    /\ UNCHANGED <<departments, department_admins, questions, nextQuestion, votes, answerVars, commentVars>>
    /\ UNCHANGED <<voteTxnVars, clientVars, dispatchVars>>

(* ---- questions ---- *)
\* Variant: the policy as first written, auth.uid() = author_id OR author_id IS NULL.
QuestionInsertAllowed_first(caller, row) ==
    /\ caller # NULL
    /\ (caller = row.author_id \/ row.author_id = NULL)

\* Policy "Authenticated users can create questions" (TO authenticated, WITH CHECK).
QuestionInsertAllowed(caller, row) ==
    /\ caller # NULL
    /\ \/ (row.is_anonymous = TRUE /\ row.author_id = NULL)
       \/ (row.is_anonymous = FALSE /\ row.author_id # NULL /\ caller = row.author_id)

\* Result code of INSERT INTO questions: the policy, then the foreign keys.
QuestionInsertResult(caller, row) ==
    IF ~QuestionInsertAllowed(caller, row) THEN "42501"
    ELSE IF row.department_id # NULL /\ row.department_id \notin departments THEN "23503"
    ELSE IF row.author_id # NULL /\ row.author_id \notin users THEN "23503"
    ELSE "ok"

\* A direct INSERT INTO questions through the data API, by any caller (NULL: no session).
InsertQuestion(caller, anon, author, dept) ==
    /\ nextQuestion <= MaxQuestions
    /\ LET row == QuestionRow(dept, anon, author)
           code == QuestionInsertResult(caller, row)
       IN /\ resp' = Response("insert_question", caller, row, code)
          /\ IF code = "ok"
                THEN /\ questions' = questions @@ (nextQuestion :> row)
                     /\ nextQuestion' = nextQuestion + 1
                ELSE UNCHANGED <<questions, nextQuestion>>
    /\ UNCHANGED <<users, nextUser, profiles, user_roles, departments, department_admins, votes,
                   answerVars, commentVars>>
    /\ UNCHANGED <<voteTxnVars, clientVars, dispatchVars>>

\* Variant of the update policy that lets responders through as well.
QuestionUpdateAllowed_responders(caller) == caller # NULL /\ is_admin_or_responder(caller)

\* Policy "Admins can update questions": the rows a caller's UPDATE can touch.
QuestionUpdateAllowed(caller) == caller # NULL /\ has_role(caller, "admin")

\* Policy "Admins can delete questions".
QuestionDeleteAllowed(caller) == caller # NULL /\ has_role(caller, "admin")

\* Admin.handleUpdateQuestionStatus: UPDATE questions SET status WHERE id = q.
\* A row the policy hides is not updated and no error is returned.
handleUpdateQuestionStatus(caller, q, status) ==
    /\ q \in DOMAIN questions
    /\ Holders(q) = {}
    /\ questions' = IF QuestionUpdateAllowed(caller)
                        THEN [questions EXCEPT ![q].status = status]
                        ELSE questions
    /\ resp' = Response("update_question", caller, q,
                        IF QuestionUpdateAllowed(caller) THEN "ok" ELSE "none")
    /\ UNCHANGED <<users, nextUser, profiles, user_roles, departments, department_admins,
                   nextQuestion, votes, answerVars, commentVars>>
    /\ UNCHANGED <<voteTxnVars, clientVars, dispatchVars>>

\* Variant without the cascade from answers to comments: every comment is kept.
CommentsOn_no_cascade(kept) == comments

\* ON DELETE CASCADE of comments.answer_id: the comments left on the answers kept.
CommentsOn(kept) ==
    [c \in {x \in DOMAIN comments : comments[x].answer_id \in kept} |-> comments[c]]

\* ON DELETE SET NULL of comments.author_id.
CommentAuthorSetNull(cs, target) ==
    [c \in DOMAIN cs |-> IF cs[c].author_id = target THEN [cs[c] EXCEPT !.author_id = NULL]
                                                     ELSE cs[c]]

\* ON DELETE CASCADE of votes.question_id: the vote rows that go with question q
\* (answers.question_id cascades too).
VotesOfQuestion(q) == {v \in votes : v.question_id = q}

\* Admin.handleDeleteQuestion: DELETE FROM questions WHERE id = q, with its cascade.
\* The cascaded vote deletes fire the vote trigger on a question row already deleted.
handleDeleteQuestion(caller, q) ==
    /\ q \in DOMAIN questions
    /\ Holders(q) = {}
    /\ ~Referenced(q)
    /\ IF QuestionDeleteAllowed(caller)
          THEN /\ questions' = ApplyCounterUpdates(
                                   [x \in DOMAIN questions \ {q} |-> questions[x]],
                                   DeleteTriggerUpdates(VotesOfQuestion(q)))
               /\ votes' = votes \ VotesOfQuestion(q)
               /\ answers' = [a \in {x \in DOMAIN answers : answers[x].question_id # q}
                                 |-> answers[a]]
               /\ rolesAtPost' = [a \in DOMAIN answers' |-> rolesAtPost[a]]
               /\ comments' = CommentsOn(DOMAIN answers')
          ELSE UNCHANGED <<questions, votes, answers, rolesAtPost, comments>>
    /\ resp' = Response("delete_question", caller, q,
                        IF QuestionDeleteAllowed(caller) THEN "ok" ELSE "none")
    /\ UNCHANGED <<users, nextUser, profiles, user_roles, departments, department_admins,
                   nextQuestion, nextAnswer, nextComment>>
    /\ UNCHANGED <<voteTxnVars, clientVars, dispatchVars>>

(* ---- votes: one statement = one transaction, with its AFTER ROW trigger ---- *)
\* The row of (question, user) in the ledger, as a set (UNIQUE (question_id, user_id)).
VoteRowsOf(q, u) == {v \in votes : v.question_id = q /\ v.user_id = u}

\* Variant of the vote policies that lets a signed-in caller write every row.
VoteRowAllowed_any(caller, row) == caller # NULL

\* Policies "Users can manage/update/delete their own votes": auth.uid() = user_id.
VoteRowAllowed(caller, row) == caller # NULL /\ caller = row.user_id

\* Policy "Users can view all votes" (USING (true)), dropped by the later migration.
VoteSelectAllowed_all(caller, row) == caller # NULL

\* Policy "Users can view their own votes": USING (auth.uid() = user_id).
VoteSelectAllowed(caller, row) == caller # NULL /\ caller = row.user_id

\* SELECT ... FROM votes [WHERE question_id = q] [AND user_id = owner] on a ledger, as
\* the caller sees it (NULL: no such filter).
VoteQuery(caller, ledger, q, owner) ==
    {v \in ledger : /\ VoteSelectAllowed(caller, v)
                    /\ (q = NULL \/ v.question_id = q)
                    /\ (owner = NULL \/ v.user_id = owner)}

\* A read of the ledger (fetchQuestion, fetchQuestions or the data API): committed rows.
SelectVotes(caller, q, owner) ==
    /\ resp' = [op |-> "select_votes", by |-> caller,
                arg |-> <<VoteQuery(caller, votes, q, owner)>>, code |-> "ok"]
    /\ UNCHANGED <<storeVars, voteTxnVars, clientVars, dispatchVars>>

\* The transaction of a statement that writes the ledger: the trigger is still to run.
BeginTxn(op, oldRow, newRow) ==
    [pc |-> "trig", op |-> op, old |-> oldRow, new |-> newRow,
     todo |-> update_question_votes(op, oldRow, newRow), pend |-> <<>>]

\* INSERT INTO votes (question_id, user_id, vote_type) VALUES (q, owner, t).
VoteInsertStmt(caller, q, owner, t) ==
    /\ caller \in users
    /\ txn[caller].pc = "idle"
    /\ nVoteOps < MaxVoteOps
    /\ LET row == VoteRow(q, owner, t)
           code == IF ~VoteRowAllowed(caller, row) THEN "42501"
                   ELSE IF q \notin DOMAIN questions THEN "23503"
                   ELSE IF VoteRowsOf(q, owner) # {} THEN "23505"
                   ELSE "ok"
       IN IF code = "ok"
            THEN /\ txn' = [txn EXCEPT ![caller] = BeginTxn("INSERT", NoRow, row)]
                 /\ UNCHANGED resp
            ELSE /\ resp' = Response("insert_vote", caller, row, code)
                 /\ UNCHANGED txn
    /\ nVoteOps' = nVoteOps + 1
    /\ UNCHANGED <<storeVars, dispatchVars>>

\* UPDATE votes SET question_id = newq, vote_type = t WHERE question_id = q AND user_id = owner.
\* (handleVote sends vote_type only, i.e. newq = q.)  Rows of other users are hidden.
VoteUpdateStmt(caller, q, owner, newq, t) ==
    /\ caller \in users
    /\ txn[caller].pc = "idle"
    /\ nVoteOps < MaxVoteOps
    /\ LET rows == {v \in VoteRowsOf(q, owner) : VoteRowAllowed(caller, v)}
           newRow == VoteRow(newq, owner, t)
           code == IF rows = {} THEN "none"
                   ELSE IF newq \notin DOMAIN questions THEN "23503"
                   ELSE IF newq # q /\ VoteRowsOf(newq, owner) # {} THEN "23505"
                   ELSE "ok"
       IN IF rows # {} /\ code = "ok"
            THEN /\ txn' = [txn EXCEPT ![caller] =
                               BeginTxn("UPDATE", CHOOSE v \in rows : TRUE, newRow)]
                 /\ UNCHANGED resp
            ELSE /\ resp' = Response("update_vote", caller, newRow, code)
                 /\ UNCHANGED txn
    /\ nVoteOps' = nVoteOps + 1
    /\ UNCHANGED <<storeVars, dispatchVars>>

\* DELETE FROM votes WHERE question_id = q AND user_id = owner.
VoteDeleteStmt(caller, q, owner) ==
    /\ caller \in users
    /\ txn[caller].pc = "idle"
    /\ nVoteOps < MaxVoteOps
    /\ LET rows == {v \in VoteRowsOf(q, owner) : VoteRowAllowed(caller, v)}
       IN IF rows # {}
            THEN /\ txn' = [txn EXCEPT ![caller] =
                               BeginTxn("DELETE", CHOOSE v \in rows : TRUE, NoRow)]
                 /\ UNCHANGED resp
            ELSE /\ resp' = Response("delete_vote", caller, VoteRow(q, owner, "none"), "none")
                 /\ UNCHANGED txn
    /\ nVoteOps' = nVoteOps + 1
    /\ UNCHANGED <<storeVars, dispatchVars>>

\* The three statements sent through the data API, outside the page's control.
VoteInsert(caller, q, owner, t) ==
    VoteInsertStmt(caller, q, owner, t) /\ UNCHANGED clientVars

VoteUpdate(caller, q, owner, newq, t) ==
    VoteUpdateStmt(caller, q, owner, newq, t) /\ UNCHANGED clientVars

VoteDelete(caller, q, owner) ==
    VoteDeleteStmt(caller, q, owner) /\ UNCHANGED clientVars

\* The version of question q that transaction u updates: its own, else the committed one.
RowVersion(u, q) == IF q \in DOMAIN txn[u].pend THEN txn[u].pend[q] ELSE questions[q]

\* One UPDATE public.questions of the trigger, in transaction u.
TriggerUpdate(u) ==
    /\ txn[u].pc = "trig"
    /\ LET h == Head(txn[u].todo)
           rest == Tail(txn[u].todo)
       IN /\ CanLockRow(h.q, u)
          /\ txn' = [txn EXCEPT
                        ![u].pend = (h.q :> SetCounter(RowVersion(u, h.q), h.col, h.delta)) @@ @,
                        ![u].todo = rest,
                        ![u].pc = IF rest = <<>> THEN "commit" ELSE "trig"]
    /\ UNCHANGED <<storeVars, nVoteOps, resp, dispatchVars, clientVars>>

\* The ledger after transaction u's row change.
LedgerAfter(u) == (votes \ {txn[u].old}) \cup ({txn[u].new} \ {NoRow})

\* The questions table after transaction u's row versions replace the committed ones.
QuestionsAfter(u) ==
    [q \in DOMAIN questions |-> IF q \in DOMAIN txn[u].pend THEN txn[u].pend[q] ELSE questions[q]]

\* Commit of transaction u: its ledger row and its question row versions become visible.
Commit(u) ==
    /\ txn[u].pc = "commit"
    /\ votes' = LedgerAfter(u)
    /\ questions' = QuestionsAfter(u)
    /\ txn' = [txn EXCEPT ![u] = IdleTxn]
    /\ UNCHANGED <<users, nextUser, profiles, user_roles, departments, department_admins,
                   nextQuestion, answerVars, commentVars>>
    /\ UNCHANGED <<nVoteOps, resp, dispatchVars, clientVars>>

\* A transaction waiting for a row lock is cancelled (deadlock detected, lock timeout):
\* everything it wrote is rolled back.
Abort(u) ==
    /\ txn[u].pc = "trig"
    /\ ~CanLockRow(Head(txn[u].todo).q, u)
    /\ txn' = [txn EXCEPT ![u] = IdleTxn]
    /\ UNCHANGED <<storeVars, nVoteOps, resp, dispatchVars, clientVars>>

(* ---- user deletion ---- *)
\* ON DELETE SET NULL of questions.author_id.
AuthorSetNull(qs, target) ==
    [q \in DOMAIN qs |-> IF qs[q].author_id = target THEN [qs[q] EXCEPT !.author_id = NULL]
                                                     ELSE qs[q]]

\* ON DELETE CASCADE of votes.user_id: the vote rows that go with the user.
VotesOfUser(target) == {v \in votes : v.user_id = target}

\* The question rows a deletion of the user updates (author reference, vote counters).
QuestionsOfUser(target) ==
    {q \in DOMAIN questions : questions[q].author_id = target
                               \/ \E v \in VotesOfUser(target) : v.question_id = q}

\* The delete-user function: an administrator removes a user from auth.users.
DeleteUserAllowed(caller) == caller \in users /\ has_role(caller, "admin")

\* UserManagement.handleDeleteUser: functions.invoke('delete-user', {userId}); the rows
\* that reference auth.users follow by their foreign keys (department_admins has none).
handleDeleteUser(caller, target) ==
    /\ target \in users
    /\ txn[target].pc = "idle"
    /\ \A q \in QuestionsOfUser(target) : Holders(q) = {}
    /\ IF DeleteUserAllowed(caller)
          THEN /\ users' = users \ {target}
               /\ profiles' = profiles \ {target}
               /\ user_roles' = {ur \in user_roles : ur[1] # target}
               /\ votes' = votes \ VotesOfUser(target)
               /\ questions' = ApplyCounterUpdates(AuthorSetNull(questions, target),
                                                   DeleteTriggerUpdates(VotesOfUser(target)))
               /\ answers' = [a \in {x \in DOMAIN answers : answers[x].author_id # target}
                                 |-> answers[a]]
               /\ rolesAtPost' = [a \in DOMAIN answers' |-> rolesAtPost[a]]
               /\ comments' = CommentAuthorSetNull(CommentsOn(DOMAIN answers'), target)
               /\ resp' = Response("delete_user", caller, target, "ok")
          ELSE /\ UNCHANGED <<users, profiles, user_roles, votes, questions, answers,
                              rolesAtPost, comments>>
               /\ resp' = Response("delete_user", caller, target, "403")
    /\ UNCHANGED <<nextUser, departments, department_admins, nextQuestion, nextAnswer,
                   nextComment>>
    /\ UNCHANGED <<voteTxnVars, clientVars, dispatchVars>>

(* ---- asking a question ---- *)
\* supabase.functions.invoke(fn, {body: {question}}) with the session token of `token`.
Invocation(id, fn, token, payload, origin) ==
    [id |-> id, fn |-> fn, token |-> token, question |-> payload, origin |-> origin]

\* The row INSERT ... .select().single() returns, as sent in the body.  text stands for
\* title and content: "stored" is the text of the stored row.
Payload(q, row) ==
    [id |-> q, department_id |-> row.department_id, is_anonymous |-> row.is_anonymous,
     author_id |-> row.author_id, text |-> "stored"]

\* AskQuestion.handleSubmit: insert the question, then notify the department's admins.
handleSubmit(u, anon, dept) ==
    /\ u \in users
    /\ nextQuestion <= MaxQuestions
    /\ dept # NULL => nInvokes < MaxInvokes
    /\ LET row == QuestionRow(dept, anon, IF anon THEN NULL ELSE u)
           code == QuestionInsertResult(u, row)
       IN /\ resp' = Response("submit_question", u, row, code)
          /\ IF code = "ok"
                THEN /\ questions' = questions @@ (nextQuestion :> row)
                     /\ nextQuestion' = nextQuestion + 1
                     /\ IF row.department_id # NULL
                           THEN /\ reqs' = reqs \cup {Invocation(nInvokes + 1, "notify", u,
                                                                 Payload(nextQuestion, row), "submit")}
                                /\ nInvokes' = nInvokes + 1
                           ELSE UNCHANGED <<reqs, nInvokes>>
                ELSE UNCHANGED <<questions, nextQuestion, reqs, nInvokes>>
    /\ UNCHANGED <<users, nextUser, profiles, user_roles, departments, department_admins, votes,
                   answerVars, commentVars>>
    /\ UNCHANGED <<voteTxnVars, clientVars, d, mail>>

\* The callers that hold the admin role.
Admins == {u \in users : has_role(u, "admin")}

(* ---- specification of the vote ledger under concurrent transactions ---- *)
NextVotes ==
    \/ SignUp
    \/ \E u \in users : handleSubmit(u, TRUE, NULL)
    \/ \E u \in users, q \in DOMAIN questions, t \in VoteTypes : VoteInsert(u, q, u, t)
    \/ \E u \in users, q \in DOMAIN questions, newq \in DOMAIN questions, t \in VoteTypes :
          VoteUpdate(u, q, u, newq, t)
    \/ \E u \in users, q \in DOMAIN questions : VoteDelete(u, q, u)
    \/ \E u \in UserIds : TriggerUpdate(u)
    \/ \E u \in UserIds : Commit(u)
    \/ \E u \in UserIds : Abort(u)
    \/ \E u \in Admins, q \in QuestionIds : handleDeleteQuestion(u, q)
    \/ \E u \in Admins : \E target \in users \ {u} : handleDeleteUser(u, target)

SpecVotes == Init /\ [][NextVotes]_vars

(* ---- vote ledger and counters ---- *)
\* The number of ledger rows of a type for a question.
LedgerCount(q, t) == Cardinality({v \in votes : v.question_id = q /\ v.vote_type = t})

CountersMatchLedger(q) ==
    /\ questions[q].upvotes = LedgerCount(q, "up")
    /\ questions[q].downvotes = LedgerCount(q, "down")

\* C1: in every state a reader can see, every question's upvotes and downvotes equal the
\* numbers of its 'up' and 'down' ledger rows and are not negative, whatever vote
\* inserts, updates (same type, other type, other question), deletes and cascaded
\* deletes (of a user, of a question) have run.
C1_CountersEqualLedger ==
    \A q \in DOMAIN questions :
        /\ CountersMatchLedger(q)
        /\ questions[q].upvotes >= 0
        /\ questions[q].downvotes >= 0

\* C1 witness: a question that two users voted on, one up and one down.
C1_Witness ==
    \E q \in DOMAIN questions : questions[q].upvotes = 1 /\ questions[q].downvotes = 1

OtherType(t) == IF t = "up" THEN "down" ELSE "up"

\* C2: a step in which a reader sees the vote of (question, user) change from one type
\* to the other is the step in which the old type's counter drops by exactly one and
\* the new type's counter grows by exactly one, and the counters agree with the
\* ledger after it.
C2_TypeChangeIsAtomic ==
    [][\A q \in DOMAIN questions, u \in UserIds, t \in VoteTypes :
          (VoteRow(q, u, t) \in votes /\ VoteRow(q, u, OtherType(t)) \in votes')
              => /\ q \in DOMAIN questions'
                 /\ questions'[q][Counter(t)] = questions[q][Counter(t)] - 1
                 /\ questions'[q][Counter(OtherType(t))] = questions[q][Counter(OtherType(t))] + 1
                 /\ questions'[q].upvotes = Cardinality({v \in votes' : v.question_id = q
                                                                      /\ v.vote_type = "up"})
                 /\ questions'[q].downvotes = Cardinality({v \in votes' : v.question_id = q
                                                                        /\ v.vote_type = "down"})
      ]_vars

\* C2 witness: an up -> down update of a vote has run its trigger and is about to
\* commit, while readers still see the up vote and its counter.
C2_Witness ==
    \E u \in UserIds :
        /\ txn[u].pc = "commit"
        /\ txn[u].op = "UPDATE"
        /\ txn[u].old.vote_type = "up"
        /\ txn[u].new.vote_type = "down"
        /\ txn[u].old.question_id = txn[u].new.question_id
        /\ txn[u].old \in votes
        /\ questions[txn[u].old.question_id].upvotes >= 1

Callers == users \cup {NULL}

Next ==
    \/ SignUp
    \/ \E caller \in Callers, anon \in BOOLEAN, author \in UserIds \cup {NULL},
          dept \in DeptIds \cup {NULL} : InsertQuestion(caller, anon, author, dept)
    \/ \E u \in users, anon \in BOOLEAN : handleSubmit(u, anon, NULL)
    \/ \E caller \in users, q \in QuestionIds, status \in Statuses :
          handleUpdateQuestionStatus(caller, q, status)
    \/ \E caller \in users, q \in QuestionIds : handleDeleteQuestion(caller, q)
    \/ \E caller \in users : \E target \in users \ {caller} : handleDeleteUser(caller, target)

Spec == Init /\ [][Next]_vars

(* ---- creating questions ---- *)
\* The operations that decide whether a question row is created and who its author
\* can be: sign-up, the two ways to insert a question, and the removal of users (a
\* removed user's id can still be named as author).  The department is no part of
\* the policy: the rows are created without one.
NextCreate ==
    \/ SignUp
    \/ \E caller \in Callers, anon \in BOOLEAN, author \in UserIds \cup {NULL} :
          InsertQuestion(caller, anon, author, NULL)
    \/ \E u \in users, anon \in BOOLEAN : handleSubmit(u, anon, NULL)
    \/ \E caller \in users : \E target \in users \ {caller} : handleDeleteUser(caller, target)

SpecCreate == Init /\ [][NextCreate]_vars

\* The two shapes of a new question, for an acting identity.
AllowedShape(caller, anon, author) ==
    \/ (anon = TRUE /\ author = NULL)
    \/ (anon = FALSE /\ author # NULL /\ author = caller)

\* C4: an INSERT of a question by a caller without a session, or in a shape other
\* than (anonymous, no author) or (not anonymous, author = caller), is refused and
\* leaves the questions unchanged; and every question row a step adds is anonymous
\* without author or non-anonymous with an existing user as author.
C4_QuestionInsertGate ==
    [][/\ \A caller \in UserIds \cup {NULL}, anon \in BOOLEAN, author \in UserIds \cup {NULL},
             dept \in DeptIds \cup {NULL} :
            (resp'.op = "insert_question" /\ InsertQuestion(caller, anon, author, dept))
                => IF caller # NULL /\ AllowedShape(caller, anon, author)
                     THEN resp'.code = "ok" => questions' = questions @@
                                (nextQuestion :> QuestionRow(dept, anon, author))
                     ELSE resp'.code = "42501" /\ questions' = questions
       /\ \A q \in DOMAIN questions' \ DOMAIN questions :
            \/ (questions'[q].is_anonymous = TRUE /\ questions'[q].author_id = NULL)
            \/ (questions'[q].is_anonymous = FALSE /\ questions'[q].author_id \in users)
      ]_vars

\* C4 witness: a signed-in caller's anonymous question that names an author was refused.
C4_Witness ==
    /\ resp.op = "insert_question"
    /\ resp.code = "42501"
    /\ resp.by # NULL
    /\ resp.arg[1].is_anonymous = TRUE
    /\ resp.arg[1].author_id # NULL

\* C5: every stored question has no author exactly when it is anonymous.
C5_AuthorNullIffAnonymous ==
    \A q \in DOMAIN questions :
        (questions[q].author_id = NULL) <=> (questions[q].is_anonymous = TRUE)

(* ---- department admins ---- *)
\* Policy "Admins can manage department admins" (FOR ALL, has_role(auth.uid(), 'admin')).
DepartmentAdminAllowed(caller) == caller # NULL /\ has_role(caller, "admin")

\* The SELECT policies of profiles, any of which lets a row through: "Users can view
\* their own profile", "Admins can view all profiles" and "Authenticated users can
\* view profiles via public view" (TO authenticated USING (true)).
ProfileVisible(caller, target) ==
    /\ target \in profiles
    /\ (caller = target \/ has_role(caller, "admin") \/ caller # NULL)

\* Admin.handleAddDepartmentAdmin: find the profile by email, insert the link, then
\* upsert the 'responder' role (its result is not looked at).
handleAddDepartmentAdmin(caller, target, dept) ==
    /\ caller \in users
    /\ LET code == IF ~ProfileVisible(caller, target) THEN "not_found"
                   ELSE IF ~DepartmentAdminAllowed(caller) THEN "42501"
                   ELSE IF <<target, dept>> \in department_admins THEN "23505"
                   ELSE IF dept \notin departments THEN "23503"
                   ELSE "ok"
       IN /\ resp' = Response("add_department_admin", caller, <<target, dept>>, code)
          /\ IF code = "ok"
                THEN /\ department_admins' = department_admins \cup {<<target, dept>>}
                     /\ user_roles' = user_roles \cup {<<target, "responder">>}
                ELSE UNCHANGED <<department_admins, user_roles>>
    /\ UNCHANGED <<users, nextUser, profiles, departments, questions, nextQuestion, votes,
                   answerVars, commentVars>>
    /\ UNCHANGED <<voteTxnVars, clientVars, dispatchVars>>

(* ---- notification function: requests ---- *)
\* A question object a caller can put in the body: any id, department, flag and text
\* (the stored one or another); the author it names is absent or the caller.
Payloads(token) ==
    {[id |-> q, department_id |-> dept, is_anonymous |-> anon,
      author_id |-> IF anon THEN NULL ELSE token, text |-> text] :
        q \in QuestionIds, dept \in DeptIds \cup {NULL}, anon \in BOOLEAN,
        text \in {"stored", "forged"}}

\* An HTTP request to one of the handlers, made outside the application.
Invoke(fn, token, payload) ==
    /\ nInvokes < MaxInvokes
    /\ reqs' = reqs \cup {Invocation(nInvokes + 1, fn, token, payload, "direct")}
    /\ nInvokes' = nInvokes + 1
    /\ UNCHANGED <<storeVars, voteTxnVars, clientVars, resp, d, mail>>

(* ---- notification function: the handler, one step per await ---- *)
\* The question object the lookups work with: validatedQuestion (read from the store)
\* in the verifying handler, the payload's question in the variant.
Subject(run) == IF run.fn = "notify" THEN run.questionData ELSE run.question

\* return new Response(JSON.stringify({...}), { status }).
Reply(run, status, message) ==
    [run EXCEPT !.pc = "done", !.status = status, !.message = message]

\* Variant of the catch block that answers a failed lookup like a skipped notification.
Thrown_as_skip(run, what) ==
    [Reply(run, 200, "No admins for this department") EXCEPT !.err = what]

\* throw new Error("Failed to fetch ..."), caught by the handler's catch block.
Thrown(run, what) ==
    [Reply(run, 500, "Internal server error") EXCEPT !.err = what]

\* Variant that looks at the payload before the caller's identity.
AuthStep_payload_first(run) ==
    LET user == IF run.token \in users THEN run.token ELSE NULL
    IN IF run.question = NoQuestion
          THEN Reply([run EXCEPT !.user = user], 400, "Invalid request payload")
       ELSE IF user = NULL
          THEN Reply(run, 401, "Invalid authentication")
       ELSE [run EXCEPT !.user = user, !.pc = "question"]

\* Authorization header, auth.getUser() and the payload validation.
AuthStep(run) ==
    LET user == IF run.token \in users THEN run.token ELSE NULL
    IN IF run.token = NULL
          THEN Reply(run, 401, "Authorization required")
       ELSE IF user = NULL
          THEN Reply(run, 401, "Invalid authentication")
       ELSE IF run.question = NoQuestion
          THEN Reply([run EXCEPT !.user = user], 400, "Invalid request payload")
       ELSE [run EXCEPT !.user = user, !.pc = "question"]

\* The verifying handler reads the question and compares its author with the caller.
QuestionStep(run, ok) ==
    IF ~ok \/ run.question.id \notin DOMAIN questions
        THEN Reply(run, 404, "Question not found")
    ELSE LET data == Payload(run.question.id, questions[run.question.id])
             read == [run EXCEPT !.questionData = data]
         IN IF data.author_id # run.user
               THEN Reply(read, 403, "Unauthorized - not the question author")
            ELSE IF data.department_id = NULL
               THEN Reply(read, 200, "No department assigned, skipping")
            ELSE [read EXCEPT !.pc = "department"]

\* The variant reads the question from the body: no identity, no store.
ParseStep(run) ==
    IF run.question = NoQuestion THEN Thrown(run, "payload")
    ELSE IF run.question.department_id = NULL
        THEN Reply(run, 200, "No department assigned, skipping")
    ELSE [run EXCEPT !.pc = "department"]

DepartmentStep(run, ok) ==
    IF ~ok \/ Subject(run).department_id \notin departments
        THEN Thrown(run, "department")
        ELSE [run EXCEPT !.pc = "admins"]

AdminsStep(run, ok) ==
    LET rows == {u \in UserIds : <<u, Subject(run).department_id>> \in department_admins}
    IN IF ~ok THEN Thrown(run, "admins")
       ELSE IF rows = {} THEN Reply(run, 200, "No admins for this department")
       ELSE [run EXCEPT !.departmentAdmins = rows, !.pc = "profiles"]

\* profiles .in("user_id", adminUserIds); the author's name is looked up only for a
\* non-anonymous question with an author.
ProfilesStep(run, ok) ==
    LET rows == run.departmentAdmins \cap profiles
        found == [run EXCEPT !.adminProfiles = rows]
    IN IF ~ok THEN Thrown(run, "profiles")
       ELSE IF rows = {} THEN Reply(found, 200, "No profiles for department admins")
       ELSE IF ~Subject(run).is_anonymous /\ Subject(run).author_id # NULL
          THEN [found EXCEPT !.pc = "author"]
       ELSE [found EXCEPT !.pc = "send", !.todo = rows]

\* The author's profile: a failed lookup leaves "Anonymous".
AuthorStep(run, ok) ==
    [run EXCEPT !.authorName = IF ok /\ Subject(run).author_id \in profiles
                                  THEN "Named" ELSE "Anonymous",
                !.pc = "send", !.todo = run.adminProfiles]

\* Variant in which a failed send rejects Promise.all and reaches the catch block.
Summary_throws(run) ==
    IF \E r \in run.results : ~r.success
        THEN Reply(run, 500, "Internal server error")
        ELSE [Reply(run, 200, "Notifications sent") EXCEPT
                 !.successCount = Cardinality(run.results),
                 !.total = Cardinality(run.results)]

\* `Notifications sent to ${successCount}/${results.length} admins`, status 200.
Summary(run) ==
    [Reply(run, 200, "Notifications sent") EXCEPT
        !.successCount = Cardinality({r \in run.results : r.success}),
        !.total = Cardinality(run.results)]

\* serve(handler): the next request starts a run once the previous one has answered.
Serve(r) ==
    /\ d.pc \in {"idle", "done"}
    /\ r \in reqs
    /\ reqs' = reqs \ {r}
    /\ d' = [IdleRun EXCEPT !.pc = IF r.fn = "notify" THEN "auth" ELSE "parse",
                            !.id = r.id, !.fn = r.fn, !.token = r.token,
                            !.origin = r.origin, !.question = r.question]
    /\ UNCHANGED <<storeVars, voteTxnVars, clientVars, resp, nInvokes, mail>>

Authenticate ==
    /\ d.pc = "auth"
    /\ d' = AuthStep(d)
    /\ UNCHANGED <<storeVars, voteTxnVars, clientVars, resp, reqs, nInvokes, mail>>

ParsePayload ==
    /\ d.pc = "parse"
    /\ d' = ParseStep(d)
    /\ UNCHANGED <<storeVars, voteTxnVars, clientVars, resp, reqs, nInvokes, mail>>

FetchQuestion(ok) ==
    /\ d.pc = "question"
    /\ d' = QuestionStep(d, ok)
    /\ UNCHANGED <<storeVars, voteTxnVars, clientVars, resp, reqs, nInvokes, mail>>

FetchDepartment(ok) ==
    /\ d.pc = "department"
    /\ d' = DepartmentStep(d, ok)
    /\ UNCHANGED <<storeVars, voteTxnVars, clientVars, resp, reqs, nInvokes, mail>>

FetchAdmins(ok) ==
    /\ d.pc = "admins"
    /\ d' = AdminsStep(d, ok)
    /\ UNCHANGED <<storeVars, voteTxnVars, clientVars, resp, reqs, nInvokes, mail>>

FetchProfiles(ok) ==
    /\ d.pc = "profiles"
    /\ d' = ProfilesStep(d, ok)
    /\ UNCHANGED <<storeVars, voteTxnVars, clientVars, resp, reqs, nInvokes, mail>>

FetchAuthor(ok) ==
    /\ d.pc = "author"
    /\ d' = AuthorStep(d, ok)
    /\ UNCHANGED <<storeVars, voteTxnVars, clientVars, resp, reqs, nInvokes, mail>>

\* One of the emailPromises: resend.emails.send to admin a returns (ok) or raises.
SendEmail(a, ok) ==
    /\ d.pc = "send"
    /\ a \in d.todo
    /\ mail' = mail \cup {[id |-> d.id, to |-> a, ok |-> ok, author |-> d.authorName]}
    /\ d' = [d EXCEPT !.todo = @ \ {a},
                      !.results = @ \cup {[user_id |-> a, success |-> ok]}]
    /\ UNCHANGED <<storeVars, voteTxnVars, clientVars, resp, reqs, nInvokes>>

\* await Promise.all(emailPromises), then the summary response.
Respond ==
    /\ d.pc = "send"
    /\ d.todo = {}
    /\ d' = Summary(d)
    /\ UNCHANGED <<storeVars, voteTxnVars, clientVars, resp, reqs, nInvokes, mail>>

(* ---- specification of the notification dispatch ---- *)
NextDispatch ==
    \/ SignUp
    \/ \E u \in users, anon \in BOOLEAN, dept \in DeptIds \cup {NULL} :
          handleSubmit(u, anon, dept)
    \/ \E caller \in Admins, target \in UserIds, dept \in DeptIds :
          handleAddDepartmentAdmin(caller, target, dept)
    \/ \E caller \in Admins : \E target \in users \ {caller} : handleDeleteUser(caller, target)
    \/ \E fn \in {"notify", "variant"}, token \in UserIds \cup {NULL} :
          \E payload \in Payloads(token) \cup {NoQuestion} : Invoke(fn, token, payload)
    \/ \E r \in reqs : Serve(r)
    \/ Authenticate
    \/ ParsePayload
    \/ \E ok \in BOOLEAN : FetchQuestion(ok)
    \/ \E ok \in BOOLEAN : FetchDepartment(ok)
    \/ \E ok \in BOOLEAN : FetchAdmins(ok)
    \/ \E ok \in BOOLEAN : FetchProfiles(ok)
    \/ \E ok \in BOOLEAN : FetchAuthor(ok)
    \/ \E a \in UserIds, ok \in BOOLEAN : SendEmail(a, ok)
    \/ Respond

SpecDispatch == Init /\ [][NextDispatch]_vars

(* ---- notification dispatch: caller verification ---- *)
\* The send attempts of the run being served.
Attempts == {m \in mail : m.id = d.id}

\* The admins of a department that have a profile, in the store as it is now.
AdminsWithProfile(dept) == {u \in profiles : <<u, dept>> \in department_admins}

\* C6: a run for a question whose stored author is not the verified caller ends
\* Forbidden without any send attempt, and every step that attempts a send belongs to
\* a run that verified its caller and read the named question with that caller as
\* its stored author.
C6_NoSendUnlessCallerIsAuthor ==
    [][/\ (d'.pc = "done" /\ d'.user # NULL /\ d'.questionData # NoQuestion
              /\ d'.questionData.author_id # d'.user)
            => (d'.status = 403 /\ {m \in mail' : m.id = d'.id} = {})
       /\ \A m \in mail' \ mail :
            /\ d.user # NULL
            /\ d.questionData.id = d.question.id
            /\ d.questionData.author_id = d.user
      ]_vars

(* ---- notification dispatch: who is notified ---- *)
\* C7: when the dispatch that handleSubmit started for a question with a department
\* has answered (its creator and the question still exist, no lookup failed, and the
\* admins it read are the department's admins), each admin of the department that has
\* a profile got exactly one send attempt, naming the author "Anonymous" if the
\* question is anonymous.
C7_SubmitDispatchReachesEveryAdmin ==
    (/\ d.pc = "done"
     /\ d.origin = "submit"
     /\ d.token \in users
     /\ d.question.id \in DOMAIN questions
     /\ d.status \notin {404, 500}
     /\ d.status = 200 =>
            /\ d.departmentAdmins = {u \in UserIds :
                                       <<u, d.question.department_id>> \in department_admins}
            /\ d.adminProfiles = AdminsWithProfile(d.question.department_id))
    => \A a \in AdminsWithProfile(d.question.department_id) :
          /\ Cardinality({m \in Attempts : m.to = a}) = 1
          /\ d.question.is_anonymous => \A m \in Attempts : m.author = "Anonymous"

\* C8 as stated: a finished dispatch that read N admins of the department and met no
\* failed lookup made exactly N send attempts, one per admin.
C8_OneAttemptPerAdmin ==
    (d.pc = "done" /\ d.err = "none" /\ d.departmentAdmins # {})
        => /\ {m.to : m \in Attempts} = d.departmentAdmins
           /\ Cardinality(Attempts) = Cardinality(d.departmentAdmins)

\* C8 amended: the attempts are one per admin whose profile the profile lookup
\* returned.  While sending, every such admin is either attempted once or still to be
\* attempted, whatever the outcome of the other sends; the finished dispatch answers
\* 200, never an error, and its summary counts the successful sends and all attempts.
C8_OneAttemptPerResolvedAdmin ==
    /\ d.pc = "send" =>
          /\ d.todo \cup {m.to : m \in Attempts} = d.adminProfiles
          /\ d.todo \cap {m.to : m \in Attempts} = {}
          /\ Cardinality(Attempts) = Cardinality({m.to : m \in Attempts})
    /\ (d.pc = "done" /\ d.err = "none" /\ d.departmentAdmins # {}) =>
          /\ {m.to : m \in Attempts} = d.adminProfiles
          /\ Cardinality(Attempts) = Cardinality(d.adminProfiles)
          /\ d.status = 200
          /\ d.adminProfiles # {} =>
                /\ d.total = Cardinality(Attempts)
                /\ d.successCount = Cardinality({m \in Attempts : m.ok})

\* C8 witness: two admins, the send to one of them raised: 1 success of 2 attempts.
C8_Witness ==
    /\ d.pc = "done"
    /\ d.status = 200
    /\ Cardinality(d.adminProfiles) = 2
    /\ Cardinality({m \in Attempts : ~m.ok}) = 1
    /\ d.successCount = 1
    /\ d.total = 2

(* ---- notification dispatch: failures ---- *)
\* C9: a dispatch whose department, admin or profile lookup failed ends with the
\* error result (500), never a success, and has attempted no send.
C9_LookupFailureIsError ==
    (d.pc = "done" /\ d.err \in {"department", "admins", "profiles"})
        => (d.status = 500 /\ Attempts = {})

\* C9 witness: the profile lookup of a department with an admin failed.
C9_Witness ==
    /\ d.pc = "done"
    /\ d.err = "profiles"
    /\ d.departmentAdmins # {}
    /\ d.status = 500

HandlerStep(run, ok) ==
    CASE run.pc = "auth" -> AuthStep(run)
      [] run.pc = "parse" -> ParseStep(run)
      [] run.pc = "question" -> QuestionStep(run, ok)
      [] run.pc = "department" -> DepartmentStep(run, ok)
      [] run.pc = "admins" -> AdminsStep(run, ok)
      [] run.pc = "profiles" -> ProfilesStep(run, ok)
      [] run.pc = "author" -> AuthorStep(run, ok)
      [] run.pc = "send" /\ run.todo = {} -> Summary(run)
      [] OTHER -> run

\* What a dispatch produces: its result, its recipients, and the author name and the
\* question (department, text) its emails are written from.
Outcome(run) ==
    [pc |-> run.pc, status |-> run.status, message |-> run.message,
     recipients |-> run.adminProfiles, todo |-> run.todo,
     authorName |-> run.authorName, used |-> Subject(run)]

\* The bodies that name the same question id as the run's, with any other fields.
SameIdPayloads(run) ==
    {[id |-> run.question.id, department_id |-> dept, is_anonymous |-> anon,
      author_id |-> author, text |-> text] :
        dept \in DeptIds \cup {NULL}, anon \in BOOLEAN, author \in UserIds \cup {NULL},
        text \in {"stored", "forged"}}

\* C11: at every point of a dispatch, the same caller with the same question id and
\* any other department, author, anonymity or text in the body gets the same outcome
\* from the same stored state: the step due produces the same result, recipients,
\* author name and question used.
C11_OutcomeIndependentOfPayload ==
    (d.pc \notin {"idle", "done"} /\ d.question # NoQuestion) =>
        \A p \in SameIdPayloads(d), ok \in BOOLEAN :
            Outcome(HandlerStep([d EXCEPT !.question = p], ok)) = Outcome(HandlerStep(d, ok))

(* ---- roles ---- *)
\* Variant of the policy that lets every signed-in caller manage the roles.
RoleManageAllowed_authenticated(caller) == caller # NULL

\* Policy "Admins can manage user roles" (FOR ALL, USING has_role(auth.uid(), 'admin')).
RoleManageAllowed(caller) == caller # NULL /\ has_role(caller, "admin")

\* INSERT INTO user_roles (user_id, role): the policy, UNIQUE (user_id, role), the user.
InsertRole(caller, target, role) ==
    /\ LET code == IF ~RoleManageAllowed(caller) THEN "42501"
                   ELSE IF <<target, role>> \in user_roles THEN "23505"
                   ELSE IF target \notin users THEN "23503"
                   ELSE "ok"
       IN /\ resp' = Response("insert_role", caller, <<target, role>>, code)
          /\ user_roles' = IF code = "ok" THEN user_roles \cup {<<target, role>>}
                                          ELSE user_roles
    /\ UNCHANGED <<users, nextUser, profiles, departments, department_admins, questions,
                   nextQuestion, votes, answerVars, commentVars>>
    /\ UNCHANGED <<voteTxnVars, clientVars, dispatchVars>>

\* DELETE FROM user_roles WHERE user_id = target AND role = role: the rows the policy
\* hides are not deleted and no error is returned.
DeleteRole(caller, target, role) ==
    /\ resp' = Response("delete_role", caller, <<target, role>>,
                        IF RoleManageAllowed(caller) THEN "ok" ELSE "none")
    /\ user_roles' = IF RoleManageAllowed(caller) THEN user_roles \ {<<target, role>>}
                                                  ELSE user_roles
    /\ UNCHANGED <<users, nextUser, profiles, departments, department_admins, questions,
                   nextQuestion, votes, answerVars, commentVars>>
    /\ UNCHANGED <<voteTxnVars, clientVars, dispatchVars>>

\* Admin.handleAddRole.
handleAddRole(caller, target, role) == InsertRole(caller, target, role)

\* Admin.handleRemoveRole: the employee role is refused in the page, before any request.
handleRemoveRole(caller, target, role) ==
    IF role = "employee"
        THEN /\ resp' = Response("remove_role", caller, <<target, role>>, "refused")
             /\ UNCHANGED <<storeVars, voteTxnVars, clientVars, dispatchVars>>
        ELSE DeleteRole(caller, target, role)

\* UserManagement.handleToggleAdmin: currentRoles is the page's last fetch of the roles.
handleToggleAdmin(caller, target, isCurrentlyAdmin) ==
    IF isCurrentlyAdmin THEN DeleteRole(caller, target, "admin")
                        ELSE InsertRole(caller, target, "admin")

\* UserManagement.handleToggleResponder.
handleToggleResponder(caller, target, isCurrentlyResponder) ==
    IF isCurrentlyResponder THEN DeleteRole(caller, target, "responder")
                            ELSE InsertRole(caller, target, "responder")

(* ---- answers ---- *)
AnswerRow(q, author, official) ==
    [question_id |-> q, author_id |-> author, is_official |-> official]

\* Variant of the insert policy that only compares the author with the caller.
AnswerInsertAllowed_author_only(caller, row) ==
    caller # NULL /\ caller = row.author_id

\* Policy "Responders and admins can create answers" (TO authenticated, WITH CHECK).
AnswerInsertAllowed(caller, row) ==
    caller # NULL /\ is_admin_or_responder(caller) /\ caller = row.author_id

\* Result code of INSERT INTO answers: the policy, then the foreign keys.
AnswerInsertResult(caller, row) ==
    IF ~AnswerInsertAllowed(caller, row) THEN "42501"
    ELSE IF row.question_id \notin DOMAIN questions THEN "23503"
    ELSE IF row.author_id \notin users THEN "23503"
    ELSE "ok"

\* The users that hold the responder or the admin role.
Responders == {u \in users : is_admin_or_responder(u)}

\* A direct INSERT INTO answers through the data API, by any caller.
InsertAnswer(caller, q, author, official) ==
    /\ nextAnswer <= MaxAnswers
    /\ LET row == AnswerRow(q, author, official)
           code == AnswerInsertResult(caller, row)
       IN /\ resp' = Response("insert_answer", caller, row, code)
          /\ IF code = "ok"
                THEN /\ answers' = answers @@ (nextAnswer :> row)
                     /\ rolesAtPost' = rolesAtPost @@ (nextAnswer :> Responders)
                     /\ nextAnswer' = nextAnswer + 1
                ELSE UNCHANGED answerVars
    /\ UNCHANGED <<users, nextUser, profiles, user_roles, departments, department_admins,
                   questions, nextQuestion, votes, commentVars>>
    /\ UNCHANGED <<voteTxnVars, clientVars, dispatchVars>>

\* QuestionDetail.handleSubmitAnswer: the form is shown while the page's isResponder is
\* true and sends is_official: isResponder; after a successful insert it asks for the
\* question's status 'answered', an UPDATE under the questions policy whose result is
\* not looked at.
handleSubmitAnswer(u, q) ==
    /\ u \in users
    /\ nextAnswer <= MaxAnswers
    /\ q \in DOMAIN questions => Holders(q) = {}
    /\ LET row == AnswerRow(q, u, TRUE)
           code == AnswerInsertResult(u, row)
       IN /\ resp' = Response("submit_answer", u, row, code)
          /\ IF code = "ok"
                THEN /\ answers' = answers @@ (nextAnswer :> row)
                     /\ rolesAtPost' = rolesAtPost @@ (nextAnswer :> Responders)
                     /\ nextAnswer' = nextAnswer + 1
                     /\ questions' = IF QuestionUpdateAllowed(u)
                                        THEN [questions EXCEPT ![q].status = "answered"]
                                        ELSE questions
                ELSE UNCHANGED <<answerVars, questions>>
    /\ UNCHANGED <<users, nextUser, profiles, user_roles, departments, department_admins,
                   nextQuestion, votes, commentVars>>
    /\ UNCHANGED <<voteTxnVars, clientVars, dispatchVars>>

\* Variant of the update and delete policies that also lets every responder through.
AnswerChangeAllowed_responders(caller, row) ==
    caller # NULL /\ (caller = row.author_id \/ is_admin_or_responder(caller))

\* Policies "Authors and admins can update answers" and "Authors and admins can delete
\* answers": USING (auth.uid() = author_id OR has_role(auth.uid(), 'admin')).
AnswerChangeAllowed(caller, row) ==
    caller # NULL /\ (caller = row.author_id \/ has_role(caller, "admin"))

\* UPDATE answers SET author_id, is_official WHERE id = a through the data API: a row
\* the USING clause hides is not updated (no error); the new row is checked against
\* the same expression, then against the foreign key of the author.
UpdateAnswer(caller, a, author, official) ==
    /\ LET visible == a \in DOMAIN answers /\ AnswerChangeAllowed(caller, answers[a])
           new == [answers[a] EXCEPT !.author_id = author, !.is_official = official]
           code == IF ~visible THEN "none"
                   ELSE IF ~AnswerChangeAllowed(caller, new) THEN "42501"
                   ELSE IF author \notin users THEN "23503"
                   ELSE "ok"
       IN /\ resp' = Response("update_answer", caller, <<a, author, official>>, code)
          /\ answers' = IF code = "ok" THEN [answers EXCEPT ![a] = new] ELSE answers
    /\ UNCHANGED <<nextAnswer, rolesAtPost, commentVars>>
    /\ UNCHANGED <<users, nextUser, profiles, user_roles, departments, department_admins,
                   questions, nextQuestion, votes>>
    /\ UNCHANGED <<voteTxnVars, clientVars, dispatchVars>>

\* DELETE FROM answers WHERE id = a through the data API.
DeleteAnswer(caller, a) ==
    /\ LET visible == a \in DOMAIN answers /\ AnswerChangeAllowed(caller, answers[a])
       IN /\ resp' = Response("delete_answer", caller, a, IF visible THEN "ok" ELSE "none")
          /\ IF visible
                THEN /\ answers' = [x \in DOMAIN answers \ {a} |-> answers[x]]
                     /\ rolesAtPost' = [x \in DOMAIN answers \ {a} |-> rolesAtPost[x]]
                     /\ comments' = CommentsOn(DOMAIN answers \ {a})
                ELSE UNCHANGED <<answers, rolesAtPost, comments>>
    /\ UNCHANGED <<nextAnswer, nextComment>>
    /\ UNCHANGED <<users, nextUser, profiles, user_roles, departments, department_admins,
                   questions, nextQuestion, votes>>
    /\ UNCHANGED <<voteTxnVars, clientVars, dispatchVars>>

AnswerIds == 1..MaxAnswers

(* ---- answering questions ---- *)
\* Users sign up and ask, admins hand out and take back the responder role, and every
\* caller tries every request on answers.
NextAnswers ==
    \/ SignUp
    \/ \E u \in users : handleSubmit(u, FALSE, NULL)
    \/ \E caller \in users, target \in users, isCurrently \in BOOLEAN :
          handleToggleResponder(caller, target, isCurrently)
    \/ \E caller \in Callers, q \in QuestionIds, author \in users, official \in BOOLEAN :
          InsertAnswer(caller, q, author, official)
    \/ \E u \in users, q \in QuestionIds : handleSubmitAnswer(u, q)
    \/ \E caller \in Callers, a \in AnswerIds, author \in users, official \in BOOLEAN :
          UpdateAnswer(caller, a, author, official)
    \/ \E caller \in Callers, a \in AnswerIds : DeleteAnswer(caller, a)

SpecAnswers == Init /\ [][NextAnswers]_vars

\* C12: an INSERT of an answer succeeds only for a caller that holds the responder or
\* the admin role in the state of the request and is the row's author; every other
\* insert, by a caller with the employee role alone or naming another author, is
\* refused with 42501 and leaves the answers unchanged.
C12_AnswerInsertGate ==
    [][/\ \A caller \in UserIds \cup {NULL}, q \in QuestionIds, author \in UserIds,
             official \in BOOLEAN :
            (resp'.op = "insert_answer" /\ InsertAnswer(caller, q, author, official))
                => IF caller # NULL /\ caller = author
                      /\ (<<caller, "responder">> \in user_roles
                            \/ <<caller, "admin">> \in user_roles)
                     THEN resp'.code = "ok" <=> q \in DOMAIN questions
                     ELSE resp'.code = "42501" /\ answers' = answers
       /\ \A u \in UserIds, q \in QuestionIds :
            (resp'.op = "submit_answer" /\ handleSubmitAnswer(u, q))
                => IF <<u, "responder">> \in user_roles \/ <<u, "admin">> \in user_roles
                     THEN resp'.code = "ok" <=> q \in DOMAIN questions
                     ELSE resp'.code = "42501" /\ answers' = answers
       /\ \A a \in DOMAIN answers' \ DOMAIN answers :
            /\ resp'.code = "ok"
            /\ answers'[a].author_id \in users
            /\ \/ <<answers'[a].author_id, "responder">> \in user_roles
               \/ <<answers'[a].author_id, "admin">> \in user_roles
      ]_vars

\* C12 witness: a user with the employee role alone asked to store an answer of its
\* own and was refused.
C12_Witness ==
    /\ resp.op = "insert_answer"
    /\ resp.code = "42501"
    /\ resp.by # NULL
    /\ resp.arg[1].author_id = resp.by
    /\ <<resp.by, "employee">> \in user_roles
    /\ ~is_admin_or_responder(resp.by)
    /\ resp.arg[1].question_id \in DOMAIN questions

\* C13: every stored answer is official exactly when its author held the responder or
\* the admin role when the answer was posted, whatever updates of the answer and
\* role changes followed.
C13_OfficialIffRoleAtPosting ==
    \A a \in DOMAIN answers :
        answers[a].is_official <=> answers[a].author_id \in rolesAtPost[a]

(* ---- moderating questions ---- *)
\* Users sign up and ask, admins hand out and take back the responder and admin roles,
\* and every user asks for every status change and removal of every question, and
\* answers (which asks for the status 'answered').
NextModerate ==
    \/ SignUp
    \/ \E u \in users : handleSubmit(u, FALSE, NULL)
    \/ \E caller \in users, target \in users, isCurrently \in BOOLEAN :
          handleToggleResponder(caller, target, isCurrently)
    \/ \E caller \in users, target \in users, isCurrently \in BOOLEAN :
          handleToggleAdmin(caller, target, isCurrently)
    \/ \E caller \in users, q \in QuestionIds, status \in Statuses :
          handleUpdateQuestionStatus(caller, q, status)
    \/ \E caller \in users, q \in QuestionIds : handleDeleteQuestion(caller, q)
    \/ \E u \in users, q \in QuestionIds : handleSubmitAnswer(u, q)

SpecModerate == Init /\ [][NextModerate]_vars

\* C14: a status update, a removal or the status update that follows an answer, asked
\* for by a user without the admin role (the question's author and responders
\* included), leaves every question unchanged; a step that changes or removes a
\* stored question is one of these requests, made while some user holds the admin role.
C14_OnlyAdminChangesQuestions ==
    [][/\ \A caller \in UserIds, q \in QuestionIds :
            <<caller, "admin">> \notin user_roles =>
                /\ \A status \in Statuses :
                     (resp'.op = "update_question"
                        /\ handleUpdateQuestionStatus(caller, q, status))
                        => questions' = questions
                /\ (resp'.op = "delete_question" /\ handleDeleteQuestion(caller, q))
                        => questions' = questions
                /\ (resp'.op = "submit_answer" /\ handleSubmitAnswer(caller, q))
                        => questions' = questions
       /\ (\E q \in DOMAIN questions : q \notin DOMAIN questions' \/ questions'[q] # questions[q])
            => /\ resp'.op \in {"update_question", "delete_question", "submit_answer"}
               /\ resp'.code = "ok"
               /\ \E u \in users : <<u, "admin">> \in user_roles
      ]_vars

\* C14 witness: a responder without the admin role asked for a status change of a
\* question of its own, nothing was updated and the question is still open.
C14_Witness ==
    /\ resp.op = "update_question"
    /\ resp.code = "none"
    /\ <<resp.by, "responder">> \in user_roles
    /\ <<resp.by, "admin">> \notin user_roles
    /\ resp.arg[1] \in DOMAIN questions
    /\ questions[resp.arg[1]].author_id = resp.by
    /\ questions[resp.arg[1]].status = "open"

\* C15: an UPDATE or DELETE of an answer by a caller that is neither the answer's
\* recorded author nor an admin touches no row and leaves the answers unchanged;
\* a step that changes or removes a stored answer is an update or delete request,
\* the removal of its question or the removal of its author.
C15_AnswerChangeGate ==
    [][/\ \A caller \in UserIds \cup {NULL}, a \in DOMAIN answers :
            (caller # answers[a].author_id /\ <<caller, "admin">> \notin user_roles) =>
                /\ \A author \in UserIds, official \in BOOLEAN :
                     (resp'.op = "update_answer" /\ UpdateAnswer(caller, a, author, official))
                        => (resp'.code = "none" /\ answers' = answers)
                /\ (resp'.op = "delete_answer" /\ DeleteAnswer(caller, a))
                        => (resp'.code = "none" /\ answers' = answers)
       /\ \A caller \in UserIds, a \in DOMAIN answers :
            (/\ (caller = answers[a].author_id \/ <<caller, "admin">> \in user_roles)
             /\ resp'.op = "delete_answer"
             /\ DeleteAnswer(caller, a))
                => a \notin DOMAIN answers'
       /\ (\E a \in DOMAIN answers : a \notin DOMAIN answers' \/ answers'[a] # answers[a])
            => /\ resp'.op \in {"update_answer", "delete_answer", "delete_question",
                                "delete_user"}
               /\ resp'.code = "ok"
      ]_vars

\* C15 witness: a responder that is not the author of a stored answer, and no admin,
\* asked to delete it; nothing was deleted.
C15_Witness ==
    /\ resp.op = "delete_answer"
    /\ resp.code = "none"
    /\ resp.by # NULL
    /\ resp.arg[1] \in DOMAIN answers
    /\ answers[resp.arg[1]].author_id # resp.by
    /\ <<resp.by, "responder">> \in user_roles
    /\ <<resp.by, "admin">> \notin user_roles

(* ---- departments ---- *)
\* Policy "Admins can manage departments" (FOR ALL, USING has_role(auth.uid(), 'admin')).
DepartmentManageAllowed(caller) == caller # NULL /\ has_role(caller, "admin")

\* Admin.handleAddDepartment: INSERT INTO departments (name, description); a department
\* id of the model stands for its unique name.
handleAddDepartment(caller, dept) ==
    /\ LET code == IF ~DepartmentManageAllowed(caller) THEN "42501"
                   ELSE IF dept \in departments THEN "23505"
                   ELSE "ok"
       IN /\ resp' = Response("add_department", caller, dept, code)
          /\ departments' = IF code = "ok" THEN departments \cup {dept} ELSE departments
    /\ UNCHANGED <<users, nextUser, profiles, user_roles, department_admins, questions,
                   nextQuestion, votes, answerVars, commentVars>>
    /\ UNCHANGED <<voteTxnVars, clientVars, dispatchVars>>

\* Admin.handleDeleteDepartment: DELETE FROM departments WHERE id = dept; questions that
\* name the department keep it from being deleted, its department_admins rows go with it.
handleDeleteDepartment(caller, dept) ==
    /\ LET code == IF ~(DepartmentManageAllowed(caller) /\ dept \in departments) THEN "none"
                   ELSE IF \E q \in DOMAIN questions : questions[q].department_id = dept
                        THEN "23503"
                   ELSE "ok"
       IN /\ resp' = Response("delete_department", caller, dept, code)
          /\ IF code = "ok"
                THEN /\ departments' = departments \ {dept}
                     /\ department_admins' = {l \in department_admins : l[2] # dept}
                ELSE UNCHANGED <<departments, department_admins>>
    /\ UNCHANGED <<users, nextUser, profiles, user_roles, questions, nextQuestion, votes,
                   answerVars, commentVars>>
    /\ UNCHANGED <<voteTxnVars, clientVars, dispatchVars>>

\* Admin.handleRemoveDepartmentAdmin: DELETE FROM department_admins WHERE id = link.
handleRemoveDepartmentAdmin(caller, link) ==
    /\ LET visible == DepartmentAdminAllowed(caller) /\ link \in department_admins
       IN /\ resp' = Response("remove_department_admin", caller, link,
                              IF visible THEN "ok" ELSE "none")
          /\ department_admins' = IF visible THEN department_admins \ {link}
                                             ELSE department_admins
    /\ UNCHANGED <<users, nextUser, profiles, user_roles, departments, questions,
                   nextQuestion, votes, answerVars, commentVars>>
    /\ UNCHANGED <<voteTxnVars, clientVars, dispatchVars>>

(* ---- administration: roles, departments, department admins ---- *)
\* Users sign up, and every user sends every request of the administration pages and
\* of the data API on the roles, the departments and the department-admin links.
NextRoles ==
    \/ SignUp
    \/ \E caller \in users, target \in users, role \in Roles :
          handleAddRole(caller, target, role)
    \/ \E caller \in users, target \in users, role \in Roles :
          handleRemoveRole(caller, target, role)
    \/ \E caller \in users, target \in users, role \in Roles :
          DeleteRole(caller, target, role)
    \/ \E caller \in users, target \in users, isCurrently \in BOOLEAN :
          handleToggleResponder(caller, target, isCurrently)
    \/ \E caller \in users, target \in users, dept \in DeptIds :
          handleAddDepartmentAdmin(caller, target, dept)
    \/ \E caller \in users, target \in users, dept \in DeptIds :
          handleRemoveDepartmentAdmin(caller, <<target, dept>>)
    \/ \E caller \in users, dept \in DeptIds : handleAddDepartment(caller, dept)
    \/ \E caller \in users, dept \in DeptIds : handleDeleteDepartment(caller, dept)

SpecRoles == Init /\ [][NextRoles]_vars

\* C16: every user holds the employee role in every state.
C16_EveryUserIsEmployee ==
    \A u \in users : <<u, "employee">> \in user_roles

\* C17: every user that has a department-admin link holds the responder role.
C17_LinkedUsersAreResponders ==
    \A l \in department_admins :
        l[1] \in users => <<l[1], "responder">> \in user_roles

\* The role assignments, the departments and the department-admin links.
adminStore == <<user_roles, departments, department_admins>>

\* C18: every request on roles, departments or department-admin links made by a user
\* that does not hold the admin role leaves the role assignments, the departments and
\* the links unchanged (so no sequence of such requests changes them); the three
\* change only by a request that succeeded while some user held the admin role, or
\* by the creation of a user, which gives the new user the employee role and nothing
\* else.
C18_OnlyAdminsAdminister ==
    [][/\ \A caller \in UserIds, target \in UserIds :
            <<caller, "admin">> \notin user_roles =>
                /\ \A role \in Roles :
                     /\ (resp'.op = "insert_role" /\ handleAddRole(caller, target, role))
                            => (resp'.code = "42501" /\ UNCHANGED adminStore)
                     /\ (resp'.op \in {"delete_role", "remove_role"}
                            /\ handleRemoveRole(caller, target, role))
                            => UNCHANGED adminStore
                     /\ (resp'.op = "delete_role" /\ DeleteRole(caller, target, role))
                            => UNCHANGED adminStore
                /\ \A isCurrently \in BOOLEAN :
                     (resp'.op \in {"insert_role", "delete_role"}
                        /\ handleToggleResponder(caller, target, isCurrently))
                        => UNCHANGED adminStore
                /\ \A dept \in DeptIds :
                     /\ (resp'.op = "add_department_admin"
                            /\ handleAddDepartmentAdmin(caller, target, dept))
                            => (resp'.code # "ok" /\ UNCHANGED adminStore)
                     /\ (resp'.op = "remove_department_admin"
                            /\ handleRemoveDepartmentAdmin(caller, <<target, dept>>))
                            => UNCHANGED adminStore
                     /\ (resp'.op = "add_department" /\ handleAddDepartment(caller, dept))
                            => (resp'.code = "42501" /\ UNCHANGED adminStore)
                     /\ (resp'.op = "delete_department"
                            /\ handleDeleteDepartment(caller, dept))
                            => UNCHANGED adminStore
       /\ adminStore' # adminStore =>
            \/ /\ resp'.op = "signup"
               /\ user_roles' = user_roles \cup {<<nextUser, "employee">>}
               /\ UNCHANGED <<departments, department_admins>>
            \/ /\ resp'.code = "ok"
               /\ \E u \in users : <<u, "admin">> \in user_roles
      ]_vars

\* C18 witness: a user without the admin role asked for the responder role for itself
\* and was refused.
C18_Witness ==
    /\ resp.op = "insert_role"
    /\ resp.code = "42501"
    /\ resp.by \in users
    /\ <<resp.by, "admin">> \notin user_roles
    /\ resp.arg[1] = <<resp.by, "responder">>
    /\ <<resp.by, "responder">> \notin user_roles

(* ---- the vote ledger, row by row ---- *)
\* Users sign up and ask, and every user sends every insert, update and delete of a
\* vote row, its own or another user's; the transactions run concurrently.
NextLedger ==
    \/ SignUp
    \/ \E u \in users : handleSubmit(u, TRUE, NULL)
    \/ \E caller \in users, q \in DOMAIN questions, owner \in users, t \in VoteTypes :
          VoteInsert(caller, q, owner, t)
    \/ \E caller \in users, q \in DOMAIN questions, owner \in users, t \in VoteTypes :
          VoteUpdate(caller, q, owner, q, t)
    \/ \E caller \in users, q \in DOMAIN questions, owner \in users :
          VoteDelete(caller, q, owner)
    \/ \E u \in UserIds : TriggerUpdate(u)
    \/ \E u \in UserIds : Commit(u)
    \/ \E u \in UserIds : Abort(u)

SpecLedger == Init /\ [][NextLedger]_vars

\* The rows by which two ledgers differ.
LedgerDiff(old, new) == (old \ new) \cup (new \ old)

\* C19: a vote statement by a caller on another user's row is refused (insert) or
\* touches no row (update, delete) and starts no transaction; the ledger changes only
\* when a user's transaction commits, and then only in rows of that user; an insert
\* for a (question, user) that has a row is refused with 23505, the ledger and the
\* counters unchanged and no trigger run; the ledger has at most one row per
\* (question, user).
C19_OwnVoteRowOnly ==
    [][/\ \A caller \in UserIds, q \in QuestionIds, owner \in UserIds, t \in VoteTypes :
            /\ (caller # owner /\ resp'.op = "insert_vote" /\ VoteInsert(caller, q, owner, t))
                    => (resp'.code = "42501" /\ UNCHANGED <<votes, questions, txn>>)
            /\ (caller # owner /\ resp'.op = "update_vote"
                    /\ VoteUpdate(caller, q, owner, q, t))
                    => (resp'.code = "none" /\ UNCHANGED <<votes, questions, txn>>)
            /\ (caller # owner /\ resp'.op = "delete_vote" /\ VoteDelete(caller, q, owner))
                    => (resp'.code = "none" /\ UNCHANGED <<votes, questions, txn>>)
            /\ (caller = owner /\ VoteRowsOf(q, owner) # {}
                    /\ resp'.op = "insert_vote" /\ VoteInsert(caller, q, owner, t))
                    => (resp'.code = "23505" /\ UNCHANGED <<votes, questions, txn>>)
       /\ votes' # votes =>
            \E u \in users :
                /\ txn[u].pc = "commit"
                /\ txn'[u] = IdleTxn
                /\ \A r \in LedgerDiff(votes, votes') : r.user_id = u
       /\ \A q \in QuestionIds, u \in UserIds : Cardinality(VoteRowsOf(q, u)') <= 1
      ]_vars

\* C19 witness: a user that has a vote row for a question asked to insert a second one
\* and was refused; the question's counters are those of the ledger.
C19_Witness ==
    /\ resp.op = "insert_vote"
    /\ resp.code = "23505"
    /\ resp.arg[1].user_id = resp.by
    /\ VoteRowsOf(resp.arg[1].question_id, resp.by) # {}
    /\ CountersMatchLedger(resp.arg[1].question_id)

(* ---- reading the vote ledger ---- *)
\* Users sign up, ask and vote, and every user reads the ledger with every filter.
NextReads ==
    \/ SignUp
    \/ \E u \in users : handleSubmit(u, TRUE, NULL)
    \/ \E u \in users, q \in DOMAIN questions, t \in VoteTypes : VoteInsert(u, q, u, t)
    \/ \E u \in UserIds : TriggerUpdate(u)
    \/ \E u \in UserIds : Commit(u)
    \/ \E caller \in users, q \in QuestionIds \cup {NULL}, owner \in UserIds \cup {NULL} :
          SelectVotes(caller, q, owner)

SpecReads == Init /\ [][NextReads]_vars

\* The ledgers that differ from the stored one only in rows of users other than u:
\* u's rows, and for every other (question, user) no row or one row of either type.
LedgersSameFor(u) ==
    {{v \in votes : v.user_id = u}
        \cup {VoteRow(p[1], p[2], choice[p]) :
                 p \in {x \in DOMAIN choice : choice[x] # "none"}} :
        choice \in [QuestionIds \X (UserIds \ {u}) -> VoteTypes \cup {"none"}]}

\* C20: every read of the vote ledger by a user returns rows of that user only, all of
\* them when the read has no filter, and returns the same rows on every ledger that
\* differs from the stored one only in rows of other users.
C20_ReadsOwnVotesOnly ==
    [][\A caller \in UserIds, q \in QuestionIds \cup {NULL}, owner \in UserIds \cup {NULL} :
         (resp'.op = "select_votes" /\ resp'.by = caller /\ SelectVotes(caller, q, owner)) =>
            /\ \A v \in resp'.arg[1] : v.user_id = caller /\ v \in votes
            /\ (q = NULL /\ owner = NULL)
                    => resp'.arg[1] = {v \in votes : v.user_id = caller}
            /\ \A ledger \in LedgersSameFor(caller) :
                    VoteQuery(caller, ledger, q, owner) = resp'.arg[1]
      ]_vars

\* C20 witness: a user read the ledger without filter while it held a row of its own
\* and a row of another user, and got its own row.
C20_Witness ==
    /\ resp.op = "select_votes"
    /\ resp.arg[1] # {}
    /\ \E v \in votes : v.user_id = resp.by /\ v \in resp.arg[1]
    /\ \E v \in votes : v.user_id # resp.by /\ v \notin resp.arg[1]

(* ---- reading profiles and department admins ---- *)
\* A row of profiles as a read of the table returns it, and its projection in the view
\* profiles_public (id, user_id, full_name, avatar_url, department_id, created_at).
FullProfile(u) == [user_id |-> u, full_name |-> u, email |-> u]

PublicProfile(u) == [user_id |-> u, full_name |-> u, email |-> NULL]

\* SELECT * FROM profiles, as the caller sees it.
SelectProfiles(caller) ==
    /\ resp' = [op |-> "select_profiles", by |-> caller,
                arg |-> <<{FullProfile(u) : u \in {t \in profiles : ProfileVisible(caller, t)}}>>,
                code |-> "ok"]
    /\ UNCHANGED <<storeVars, voteTxnVars, clientVars, dispatchVars>>

\* SELECT * FROM profiles_public (QuestionDetail.fetchQuestion, fetchAnswers): the view
\* with security_invoker reads profiles under the caller's policies.
SelectProfilesPublic(caller) ==
    /\ resp' = [op |-> "select_profiles_public", by |-> caller,
                arg |-> <<{PublicProfile(u) : u \in {t \in profiles : ProfileVisible(caller, t)}}>>,
                code |-> "ok"]
    /\ UNCHANGED <<storeVars, voteTxnVars, clientVars, dispatchVars>>

\* Policies "Only admins can view department admins" and "Admins can manage department
\* admins": the rows of department_admins a caller's SELECT returns.
DepartmentAdminVisible(caller) == caller # NULL /\ has_role(caller, "admin")

\* SELECT * FROM department_admins, as the caller sees it.
SelectDepartmentAdmins(caller) ==
    /\ resp' = [op |-> "select_department_admins", by |-> caller,
                arg |-> <<{l \in department_admins : DepartmentAdminVisible(caller)}>>,
                code |-> "ok"]
    /\ UNCHANGED <<storeVars, voteTxnVars, clientVars, dispatchVars>>

\* Users sign up, admins hand out roles and department-admin links, and every user
\* reads the profiles, their public projection and the department-admin list.
NextProfiles ==
    \/ SignUp
    \/ \E caller \in users, target \in users, isCurrently \in BOOLEAN :
          handleToggleAdmin(caller, target, isCurrently)
    \/ \E caller \in users, target \in users, dept \in DeptIds :
          handleAddDepartmentAdmin(caller, target, dept)
    \/ \E caller \in users : SelectProfiles(caller)
    \/ \E caller \in users : SelectProfilesPublic(caller)
    \/ \E caller \in users : SelectDepartmentAdmins(caller)

SpecProfiles == Init /\ [][NextProfiles]_vars

\* C21: a read by a signed-in user without the admin role returns the email of no
\* other user from profiles, no row of the department-admin list, and the public
\* projection, without email, of every user.
C21_NonAdminReads ==
    [][\A caller \in UserIds :
         <<caller, "admin">> \notin user_roles =>
            /\ (resp'.op = "select_profiles" /\ SelectProfiles(caller))
                    => \A r \in resp'.arg[1] : r.email # NULL => r.user_id = caller
            /\ (resp'.op = "select_department_admins" /\ SelectDepartmentAdmins(caller))
                    => resp'.arg[1] = {}
            /\ (resp'.op = "select_profiles_public" /\ SelectProfilesPublic(caller))
                    => resp'.arg[1] = {PublicProfile(u) : u \in users}
      ]_vars

(* ---- comments ---- *)
CommentRow(a, author, anon) ==
    [answer_id |-> a, author_id |-> author, is_anonymous |-> anon]

\* Policy "Authenticated users can create comments" (TO authenticated, WITH CHECK
\* (auth.uid() = author_id OR author_id IS NULL)).
CommentInsertAllowed(caller, row) ==
    caller # NULL /\ (caller = row.author_id \/ row.author_id = NULL)

\* Result code of INSERT INTO comments: the policy, then the foreign keys.
CommentInsertResult(caller, row) ==
    IF ~CommentInsertAllowed(caller, row) THEN "42501"
    ELSE IF row.answer_id \notin DOMAIN answers THEN "23503"
    ELSE IF row.author_id # NULL /\ row.author_id \notin users THEN "23503"
    ELSE "ok"

\* A direct INSERT INTO comments through the data API, by any caller.
InsertComment(caller, a, author, anon) ==
    /\ nextComment <= MaxComments
    /\ LET row == CommentRow(a, author, anon)
           code == CommentInsertResult(caller, row)
       IN /\ resp' = Response("insert_comment", caller, row, code)
          /\ IF code = "ok"
                THEN /\ comments' = comments @@ (nextComment :> row)
                     /\ nextComment' = nextComment + 1
                ELSE UNCHANGED commentVars
    /\ UNCHANGED <<users, nextUser, profiles, user_roles, departments, department_admins,
                   questions, nextQuestion, votes, answerVars>>
    /\ UNCHANGED <<voteTxnVars, clientVars, dispatchVars>>

\* AnswerCard.handleSubmitComment: the signed-in user's comment, always with
\* author_id: user.id and is_anonymous: true.
handleSubmitComment(u, a) ==
    /\ u \in users
    /\ nextComment <= MaxComments
    /\ LET row == CommentRow(a, u, TRUE)
           code == CommentInsertResult(u, row)
       IN /\ resp' = Response("submit_comment", u, row, code)
          /\ IF code = "ok"
                THEN /\ comments' = comments @@ (nextComment :> row)
                     /\ nextComment' = nextComment + 1
                ELSE UNCHANGED commentVars
    /\ UNCHANGED <<users, nextUser, profiles, user_roles, departments, department_admins,
                   questions, nextQuestion, votes, answerVars>>
    /\ UNCHANGED <<voteTxnVars, clientVars, dispatchVars>>

\* Policy "Admins can delete comments".
CommentDeleteAllowed(caller) == caller # NULL /\ has_role(caller, "admin")

\* DELETE FROM comments WHERE id = c through the data API.
DeleteComment(caller, c) ==
    /\ LET visible == c \in DOMAIN comments /\ CommentDeleteAllowed(caller)
       IN /\ resp' = Response("delete_comment", caller, c, IF visible THEN "ok" ELSE "none")
          /\ comments' = IF visible THEN [x \in DOMAIN comments \ {c} |-> comments[x]]
                                    ELSE comments
    /\ UNCHANGED nextComment
    /\ UNCHANGED <<users, nextUser, profiles, user_roles, departments, department_admins,
                   questions, nextQuestion, votes, answerVars>>
    /\ UNCHANGED <<voteTxnVars, clientVars, dispatchVars>>

CommentIds == 1..MaxComments

\* Users sign up and ask, admins answer, and every caller sends every request on
\* comments.
NextComments ==
    \/ SignUp
    \/ \E u \in users : handleSubmit(u, FALSE, NULL)
    \/ \E u \in users, q \in QuestionIds : handleSubmitAnswer(u, q)
    \/ \E caller \in Callers, a \in AnswerIds, author \in UserIds \cup {NULL},
          anon \in BOOLEAN : InsertComment(caller, a, author, anon)
    \/ \E u \in users, a \in AnswerIds : handleSubmitComment(u, a)
    \/ \E caller \in users, c \in CommentIds : DeleteComment(caller, c)

SpecComments == Init /\ [][NextComments]_vars

\* C22: an INSERT of a comment by a signed-in caller with no author and the anonymous
\* flag false, or naming another user as author, is refused and leaves the comments
\* unchanged; every other insert by a signed-in caller on an existing answer succeeds.
C22_CommentInsertGate ==
    [][\A caller \in UserIds, a \in AnswerIds, author \in UserIds \cup {NULL}, anon \in BOOLEAN :
         (resp'.op = "insert_comment" /\ InsertComment(caller, a, author, anon))
            => IF (author = NULL /\ anon = FALSE) \/ author \notin {NULL, caller}
                 THEN resp'.code # "ok" /\ comments' = comments
                 ELSE resp'.code = "ok" <=> a \in DOMAIN answers
      ]_vars

(* ---- deleting questions with what hangs on them ---- *)
\* Users sign up, ask, vote, answer and comment, and admins delete questions.
NextCascade ==
    \/ SignUp
    \/ \E u \in users : handleSubmit(u, FALSE, NULL)
    \/ \E u \in users, q \in DOMAIN questions, t \in VoteTypes : VoteInsert(u, q, u, t)
    \/ \E u \in UserIds : TriggerUpdate(u)
    \/ \E u \in UserIds : Commit(u)
    \/ \E u \in users, q \in QuestionIds : handleSubmitAnswer(u, q)
    \/ \E u \in users, a \in AnswerIds : handleSubmitComment(u, a)
    \/ \E caller \in users, q \in QuestionIds : handleDeleteQuestion(caller, q)

SpecCascade == Init /\ [][NextCascade]_vars

\* C23: the step that deletes a question leaves no answer to it, no comment on such
\* an answer and no vote on it; and after every step each answer refers to a stored
\* question, each comment to a stored answer and each vote to a stored question.
C23_DeleteQuestionCascades ==
    [][/\ \A q \in DOMAIN questions \ DOMAIN questions' :
            /\ resp'.op = "delete_question"
            /\ \A a \in DOMAIN answers' : answers'[a].question_id # q
            /\ \A c \in DOMAIN comments' :
                    \A a \in DOMAIN answers :
                        answers[a].question_id = q => comments'[c].answer_id # a
            /\ \A v \in votes' : v.question_id # q
       /\ \A a \in DOMAIN answers' : answers'[a].question_id \in DOMAIN questions'
       /\ \A c \in DOMAIN comments' : comments'[c].answer_id \in DOMAIN answers'
       /\ \A v \in votes' : v.question_id \in DOMAIN questions'
      ]_vars

\* C23 witness: the only question ever asked had a vote, an answer and a comment on
\* that answer, and was deleted: nothing of them is left.
C23_Witness ==
    /\ resp.op = "delete_question"
    /\ resp.code = "ok"
    /\ nextQuestion = 2 /\ DOMAIN questions = {}
    /\ nVoteOps >= 1 /\ InFlight = {} /\ votes = {}
    /\ nextAnswer = 2 /\ DOMAIN answers = {}
    /\ nextComment = 2 /\ DOMAIN comments = {}

(* ---- the VoteButtons control ---- *)
\* The user's vote on a question as a page reads it from the ledger.
UserVoteOf(u, q) ==
    IF VoteRowsOf(q, u) = {} THEN "none"
    ELSE (CHOOSE v \in VoteRowsOf(q, u) : TRUE).vote_type

\* fetchQuestions / fetchQuestion: the page (re)reads the user's vote on the question
\* and hands it to the control as its userVote prop; onVoteChange asks for it.
fetchUserVote(u, q) ==
    /\ u \in users
    /\ q \in DOMAIN questions
    /\ ctl[u].q \in {NULL, q}
    /\ ctl' = [ctl EXCEPT ![u].q = q, ![u].userVote = UserVoteOf(u, q)]
    /\ UNCHANGED <<storeVars, voteTxnVars, resp, dispatchVars, auth, voteLog>>

\* What handleVote tells the user: the toast of its catch block when a call threw,
\* else onVoteChange; the { error } a statement returns is not looked at.
handleVoteReport(thrown) == IF thrown THEN "Failed to vote" ELSE "changed"

\* Variant of the choice that never removes a vote: a click on the type already cast
\* sends the update.
VoteToggle_no_remove(userVote, voteType) ==
    IF userVote # "none" THEN "update" ELSE "insert"

\* The statement handleVote chooses from its userVote prop and the type clicked.
VoteToggle(userVote, voteType) ==
    IF userVote = voteType THEN "delete"
    ELSE IF userVote # "none" THEN "update"
    ELSE "insert"

\* What is remembered of a call: the caller, the question, the type clicked, the prop
\* the control had, and the user's vote and the question's counters in the store then.
VoteCall(u, q, t) ==
    [by |-> u, q |-> q, t |-> t, seen |-> ctl[u].userVote, vote |-> UserVoteOf(u, q),
     upvotes |-> IF q \in DOMAIN questions THEN questions[q].upvotes ELSE 0,
     downvotes |-> IF q \in DOMAIN questions THEN questions[q].downvotes ELSE 0]

\* VoteButtons.handleVote(voteType), up to the statement: nothing while isVoting;
\* else the statement chosen by the userVote prop is sent and awaited.
handleVote(u, t) ==
    /\ u \in users
    /\ ctl[u].q # NULL
    /\ IF ctl[u].isVoting
          THEN /\ resp' = [op |-> "handle_vote", by |-> u, arg |-> <<"none">>,
                           code |-> "ignored"]
               /\ UNCHANGED <<storeVars, voteTxnVars, dispatchVars, clientVars>>
          ELSE /\ CASE VoteToggle(ctl[u].userVote, t) = "delete" ->
                            VoteDeleteStmt(u, ctl[u].q, u)
                    [] VoteToggle(ctl[u].userVote, t) = "insert" ->
                            VoteInsertStmt(u, ctl[u].q, u, t)
                    [] OTHER -> VoteUpdateStmt(u, ctl[u].q, u, ctl[u].q, t)
               /\ voteLog' = Append(voteLog, VoteCall(u, ctl[u].q, t))
               /\ ctl' = [ctl EXCEPT ![u].isVoting = TRUE,
                                     ![u].error = IF txn'[u].pc = "idle" THEN resp'.code
                                                                         ELSE "ok"]
               /\ UNCHANGED auth

\* The rest of handleVote, once the statement has returned: onVoteChange (no statement
\* throws: its error comes back in the result), then setIsVoting(false).
handleVoteDone(u) ==
    /\ ctl[u].isVoting
    /\ txn[u].pc = "idle"
    /\ resp' = [op |-> "handle_vote", by |-> u, arg |-> <<ctl[u].error>>,
                code |-> handleVoteReport(FALSE)]
    /\ ctl' = [ctl EXCEPT ![u].isVoting = FALSE, ![u].error = "ok"]
    /\ UNCHANGED <<storeVars, voteTxnVars, dispatchVars, auth, voteLog>>

\* Users sign up and ask, open pages that show a question's vote buttons and click
\* them; the page's view of the user's vote is refreshed at any time.
NextVoting ==
    \/ SignUp
    \/ \E u \in users : handleSubmit(u, TRUE, NULL)
    \/ \E u \in users, q \in QuestionIds : fetchUserVote(u, q)
    \/ \E u \in users, t \in VoteTypes : handleVote(u, t)
    \/ \E u \in users : handleVoteDone(u)
    \/ \E u \in UserIds : TriggerUpdate(u)
    \/ \E u \in UserIds : Commit(u)

SpecVoting == Init /\ [][NextVoting]_vars

\* The result codes with which the store refuses a statement.
StoreErrors == {"42501", "23503", "23505"}

\* C24: every completed handleVote call whose statement the store refused has
\* reported a failure to the user.
C24_VoteFailureReported ==
    (resp.op = "handle_vote" /\ resp.code # "ignored" /\ resp.arg[1] \in StoreErrors)
        => resp.code = "Failed to vote"

(* ---- the counters of a question ---- *)
\* UPDATE questions SET upvotes = up, downvotes = down WHERE id = q through the data
\* API: the update policy names no column.
UpdateQuestionCounters(caller, q, up, down) ==
    /\ q \in DOMAIN questions
    /\ Holders(q) = {}
    /\ questions' = IF QuestionUpdateAllowed(caller)
                        THEN [questions EXCEPT ![q].upvotes = up, ![q].downvotes = down]
                        ELSE questions
    /\ resp' = Response("update_question", caller, q,
                        IF QuestionUpdateAllowed(caller) THEN "ok" ELSE "none")
    /\ UNCHANGED <<users, nextUser, profiles, user_roles, departments, department_admins,
                   nextQuestion, votes, answerVars, commentVars>>
    /\ UNCHANGED <<voteTxnVars, dispatchVars, clientVars>>

\* Users sign up, ask and vote, and every user asks for status changes and for
\* counter values of every question.
NextCounters ==
    \/ SignUp
    \/ \E u \in users : handleSubmit(u, TRUE, NULL)
    \/ \E u \in users, q \in DOMAIN questions, t \in VoteTypes : VoteInsert(u, q, u, t)
    \/ \E u \in UserIds : TriggerUpdate(u)
    \/ \E u \in UserIds : Commit(u)
    \/ \E caller \in users, q \in QuestionIds, status \in Statuses :
          handleUpdateQuestionStatus(caller, q, status)
    \/ \E caller \in users, q \in QuestionIds, up \in 0..1 :
          UpdateQuestionCounters(caller, q, up, 0)

SpecCounters == Init /\ [][NextCounters]_vars

\* C25: a step changes the upvotes or downvotes of a stored question only together
\* with the vote ledger.
C25_CountersFollowLedger ==
    [][\A q \in DOMAIN questions \cap DOMAIN questions' :
         (questions'[q].upvotes # questions[q].upvotes
            \/ questions'[q].downvotes # questions[q].downvotes)
                => votes' # votes
      ]_vars

\* C26: when handleSubmitAnswer has stored its answer, the question's status is
\* 'answered' at the end of the call.
C26_AnsweredAfterAnswer ==
    [][\A u \in UserIds, q \in QuestionIds :
         (resp'.op = "submit_answer" /\ resp'.code = "ok" /\ handleSubmitAnswer(u, q))
            => questions'[q].status = "answered"
      ]_vars

(* ---- the client auth state (AuthProvider) ---- *)
\* select('*') from profiles where user_id = uid, under the client's session: the row
\* (its user id) or null.
ProfileRead(caller, uid) == IF ProfileVisible(caller, uid) THEN uid ELSE NULL

\* Policies "Users can view their own roles" and "Admins can manage user roles".
RoleVisible(caller, uid) == caller # NULL /\ (caller = uid \/ has_role(caller, "admin"))

\* select('role') from user_roles where user_id = uid: the roles of the rows returned
\* (an empty array when the policies hide them).
RolesRead(caller, uid) == {r \in Roles : <<uid, r>> \in user_roles /\ RoleVisible(caller, uid)}

\* A fetchProfile(userId) call: waiting for its timer, for the profile or for the roles;
\* a request is served when it is sent, under the session the client has then.
Fetch(uid, pc, profileData, rolesData) ==
    [uid |-> uid, pc |-> pc, profileData |-> profileData, rolesData |-> rolesData]

\* The onAuthStateChange callback, on the provider state a, for the event's session.
onAuthStateChange(a, session) ==
    [a EXCEPT !.user = session,
              !.fetches = IF session # NULL THEN @ \cup {Fetch(session, "timer", NULL, {})}
                                            ELSE @,
              !.profile = IF session # NULL THEN @ ELSE NULL,
              !.isAdmin = IF session # NULL THEN @ ELSE FALSE,
              !.isResponder = IF session # NULL THEN @ ELSE FALSE,
              !.isLoading = FALSE]

\* A user signs in (in this tab or another one of the browser): SIGNED_IN.
signIn(u) ==
    /\ u \in users
    /\ auth.session # u
    /\ auth.n < MaxAuthEvents
    /\ auth' = onAuthStateChange([auth EXCEPT !.session = u, !.n = @ + 1], u)
    /\ UNCHANGED <<storeVars, voteTxnVars, resp, dispatchVars, ctl, voteLog>>

\* The user signs out: SIGNED_OUT.
signOut ==
    /\ auth.session # NULL
    /\ auth.n < MaxAuthEvents
    /\ auth' = onAuthStateChange([auth EXCEPT !.session = NULL, !.n = @ + 1], NULL)
    /\ UNCHANGED <<storeVars, voteTxnVars, resp, dispatchVars, ctl, voteLog>>

\* The page is loaded again: the provider is mounted anew over the stored session.
reload ==
    /\ auth.n < MaxAuthEvents
    /\ auth' = Mounted(auth.session, auth.n + 1)
    /\ UNCHANGED <<storeVars, voteTxnVars, resp, dispatchVars, ctl, voteLog>>

\* The INITIAL_SESSION event the subscription receives after mounting.
initialSession ==
    /\ ~auth.initial
    /\ auth' = onAuthStateChange([auth EXCEPT !.initial = TRUE], auth.session)
    /\ UNCHANGED <<storeVars, voteTxnVars, resp, dispatchVars, ctl, voteLog>>

\* getSession().then(...): user set, fetchProfile called at once, isLoading false.
getSessionThen ==
    /\ ~auth.checked
    /\ auth' = [auth EXCEPT
                  !.checked = TRUE,
                  !.user = auth.session,
                  !.fetches = IF auth.session # NULL
                                THEN @ \cup {Fetch(auth.session, "profile",
                                                   ProfileRead(auth.session, auth.session), {})}
                                ELSE @,
                  !.isLoading = FALSE]
    /\ UNCHANGED <<storeVars, voteTxnVars, resp, dispatchVars, ctl, voteLog>>

\* setTimeout(() => fetchProfile(id), 0) fires: the profile request is sent.
fetchTimer(f) ==
    /\ f \in auth.fetches
    /\ f.pc = "timer"
    /\ auth' = [auth EXCEPT !.fetches = (@ \ {f}) \cup
                    {Fetch(f.uid, "profile", ProfileRead(auth.session, f.uid), {})}]
    /\ UNCHANGED <<storeVars, voteTxnVars, resp, dispatchVars, ctl, voteLog>>

\* fetchProfile after its first await: setProfile if a row came back, then the roles
\* request is sent.
fetchProfileDone(f) ==
    /\ f \in auth.fetches
    /\ f.pc = "profile"
    /\ auth' = [auth EXCEPT
                  !.profile = IF f.profileData # NULL THEN f.profileData ELSE @,
                  !.fetches = (@ \ {f}) \cup
                    {Fetch(f.uid, "roles", f.profileData, RolesRead(auth.session, f.uid))}]
    /\ UNCHANGED <<storeVars, voteTxnVars, resp, dispatchVars, ctl, voteLog>>

\* fetchProfile after its second await: the flags are set from the rows returned.
fetchRolesDone(f) ==
    /\ f \in auth.fetches
    /\ f.pc = "roles"
    /\ auth' = [auth EXCEPT
                  !.isAdmin = "admin" \in f.rolesData,
                  !.isResponder = "responder" \in f.rolesData \/ "admin" \in f.rolesData,
                  !.fetches = @ \ {f}]
    /\ UNCHANGED <<storeVars, voteTxnVars, resp, dispatchVars, ctl, voteLog>>

\* Users sign up; in one browser users sign in and out and the page is loaded, while
\* the provider's events, promise and fetches complete in any order.
NextAuth ==
    \/ SignUp
    \/ \E u \in users : signIn(u)
    \/ signOut
    \/ reload
    \/ initialSession
    \/ getSessionThen
    \/ \E f \in auth.fetches : fetchTimer(f)
    \/ \E f \in auth.fetches : fetchProfileDone(f)
    \/ \E f \in auth.fetches : fetchRolesDone(f)

SpecAuth == Init /\ [][NextAuth]_vars

\* C27: whenever the provider's user is null its profile is null and both flags are
\* false, and a profile it holds is the profile of its user.
C27_AuthStateBelongsToUser ==
    /\ auth.user = NULL => (auth.profile = NULL /\ ~auth.isAdmin /\ ~auth.isResponder)
    /\ auth.profile # NULL => auth.profile = auth.user

\* The admin page's guard effect: navigate("/") when not loading and no user or not admin.
AdminGuardNavigates == ~auth.isLoading /\ (auth.user = NULL \/ ~auth.isAdmin)

\* C28: while an admin is signed in, the admin page's guard never navigates away:
\* isLoading is false only when the provider holds the user and the admin flag.
C28_AdminNotNavigatedAway ==
    (auth.session # NULL /\ has_role(auth.session, "admin")) => ~AdminGuardNavigates

(* ---- handleVote as a toggle ---- *)
\* The store with one user and one question, on which the user has cast no vote or an
\* up or a down vote, the counters as the trigger left them.
InitVoted ==
    /\ users = {1}
    /\ nextUser = 2
    /\ profiles = {1}
    /\ user_roles = {<<1, "employee">>, <<1, "admin">>}
    /\ departments = DeptIds
    /\ department_admins = {}
    /\ \E v \in VoteTypes \cup {"none"} :
          /\ votes = IF v = "none" THEN {} ELSE {VoteRow(1, 1, v)}
          /\ questions = (1 :> [QuestionRow(NULL, TRUE, NULL) EXCEPT
                                  !.upvotes = IF v = "up" THEN 1 ELSE 0,
                                  !.downvotes = IF v = "down" THEN 1 ELSE 0])
    /\ nextQuestion = 2
    /\ answers = <<>>
    /\ nextAnswer = 1
    /\ rolesAtPost = <<>>
    /\ comments = <<>>
    /\ nextComment = 1
    /\ txn = [u \in UserIds |-> IdleTxn]
    /\ nVoteOps = 0
    /\ resp = Response("none", NULL, NULL, "")
    /\ reqs = {}
    /\ nInvokes = 0
    /\ d = IdleRun
    /\ mail = {}
    /\ ctl = [u \in UserIds |-> NoControl]
    /\ auth = Mounted(NULL, 0)
    /\ voteLog = <<>>

\* The user opens the question's page and clicks its vote buttons; the page refreshes
\* the vote it shows at any time.
NextToggle ==
    \/ \E u \in users, q \in QuestionIds : fetchUserVote(u, q)
    \/ \E u \in users, t \in VoteTypes : handleVote(u, t)
    \/ \E u \in users : handleVoteDone(u)
    \/ \E u \in UserIds : TriggerUpdate(u)
    \/ \E u \in UserIds : Commit(u)

SpecToggle == InitVoted /\ [][NextToggle]_vars

\* The call's control is idle again and its transaction is over.
Completed(e) == ~ctl[e.by].isVoting /\ txn[e.by].pc = "idle"

\* The last two calls were of one control, for one type, each with the user's vote of
\* that moment as its prop, and both are completed.
TwoCallsInARow ==
    /\ Len(voteLog) >= 2
    /\ LET e1 == voteLog[Len(voteLog) - 1]
           e2 == voteLog[Len(voteLog)]
       IN /\ e1.by = e2.by /\ e1.q = e2.q /\ e1.t = e2.t
          /\ e1.seen = e1.vote /\ e2.seen = e2.vote
          /\ Completed(e2)

\* The user's vote after one handleVote(t) on the vote v.
Toggled(v, t) == IF v = t THEN "none" ELSE t

\* The last call, once completed with a current prop, has toggled the user's vote.
LastCallToggled ==
    (Len(voteLog) >= 1 /\ Completed(voteLog[Len(voteLog)])
        /\ voteLog[Len(voteLog)].seen = voteLog[Len(voteLog)].vote)
      => LET e == voteLog[Len(voteLog)]
         IN UserVoteOf(e.by, e.q) = Toggled(e.vote, e.t)

\* A click while a call of the control is in flight sends no statement.
InFlightClickIgnored ==
    \A u \in UserIds, t \in VoteTypes :
        (ctl[u].isVoting /\ resp'.op = "handle_vote" /\ resp'.code = "ignored"
            /\ handleVote(u, t))
          => UNCHANGED <<storeVars, voteTxnVars, clientVars>>

\* C29 as stated: handleVote toggles the user's vote, two completed calls for one type
\* in a row, each seeing the current vote, leave the user's vote and both counters as
\* they were before the first, and a click during a call in flight sends no statement.
C29_TwoCallsRestore ==
    /\ [](LastCallToggled
          /\ (TwoCallsInARow =>
                LET e1 == voteLog[Len(voteLog) - 1]
                IN /\ UserVoteOf(e1.by, e1.q) = e1.vote
                   /\ questions[e1.q].upvotes = e1.upvotes
                   /\ questions[e1.q].downvotes = e1.downvotes))
    /\ [][InFlightClickIgnored]_vars

\* C29, amended: handleVote toggles the user's vote; two completed calls for one type
\* t in a row, each seeing the current vote, restore the vote and both counters when
\* the user had no vote or a vote of type t before the first, and remove the vote,
\* taking one off its counter, when the user had a vote of the other type; a click
\* during a call in flight sends no statement.
C29_TwoCallsToggle ==
    /\ [](LastCallToggled
          /\ (TwoCallsInARow =>
                LET e1 == voteLog[Len(voteLog) - 1]
                    kept == e1.vote \in {"none", e1.t}
                IN /\ UserVoteOf(e1.by, e1.q) = IF kept THEN e1.vote ELSE "none"
                   /\ questions[e1.q].upvotes =
                        e1.upvotes - (IF ~kept /\ e1.vote = "up" THEN 1 ELSE 0)
                   /\ questions[e1.q].downvotes =
                        e1.downvotes - (IF ~kept /\ e1.vote = "down" THEN 1 ELSE 0)))
    /\ [][InFlightClickIgnored]_vars

\* Two calls in a row have completed for a user who had a vote of the other type, and
\* a click during a call in flight has been ignored since.
C29_Witness ==
    /\ TwoCallsInARow
    /\ voteLog[Len(voteLog) - 1].vote \notin {"none", voteLog[Len(voteLog) - 1].t}
    /\ resp.op = "handle_vote"

(* ---- reading comments ---- *)
\* Policies "Answers are viewable by authenticated users" and "Comments are viewable
\* by authenticated users": USING (true), TO authenticated.
CommentSelectAllowed(caller) == caller # NULL

\* What fetchAnswers holds of comment c of the table cs: the columns it selects and the
\* author it looks up in profiles_public.
CommentView(cs, caller, c) ==
    [id |-> c, is_anonymous |-> cs[c].is_anonymous, author_id |-> cs[c].author_id,
     author |-> IF cs[c].author_id # NULL /\ ProfileVisible(caller, cs[c].author_id)
                  THEN cs[c].author_id ELSE NULL]

\* The comments fetchAnswers returns for question q, the comments table being cs.
CommentsRead(cs, caller, q) ==
    {CommentView(cs, caller, c) :
        c \in {x \in DOMAIN cs : /\ CommentSelectAllowed(caller)
                                 /\ cs[x].answer_id \in DOMAIN answers
                                 /\ answers[cs[x].answer_id].question_id = q}}

\* QuestionDetail.fetchAnswers: the answers of the question with their comments.
fetchAnswers(caller, q) ==
    /\ q \in DOMAIN questions
    /\ resp' = [op |-> "fetch_answers", by |-> caller,
                arg |-> <<CommentsRead(comments, caller, q)>>, code |-> "ok"]
    /\ UNCHANGED <<storeVars, voteTxnVars, dispatchVars, clientVars>>

\* Users sign up and ask, admins answer, users comment, and every caller opens the
\* page of every question.
NextCommentReads ==
    \/ SignUp
    \/ \E u \in users : handleSubmit(u, FALSE, NULL)
    \/ \E u \in users, q \in QuestionIds : handleSubmitAnswer(u, q)
    \/ \E u \in users, a \in AnswerIds : handleSubmitComment(u, a)
    \/ \E caller \in Callers, q \in QuestionIds : fetchAnswers(caller, q)

SpecCommentReads == Init /\ [][NextCommentReads]_vars

\* The users that may have posted a comment: those of the model and one more, so that
\* a reader always has two other users to tell apart.
PosterIds == 1..(MaxUsers + 1)

\* The comments table with comment c posted by user w instead.
PostedBy(cs, c, w) == [cs EXCEPT ![c].author_id = w]

\* C30: what a non-admin identity reads on a question's page is the same whichever
\* other user posted a comment whose anonymous flag is true.
C30_AnonymousCommentAuthorHidden ==
    [][\A caller \in Callers, q \in QuestionIds :
         (resp'.op = "fetch_answers" /\ resp'.by = caller /\ ~has_role(caller, "admin")
             /\ fetchAnswers(caller, q))
            => \A c \in DOMAIN comments, w \in PosterIds \ {caller} :
                  (comments[c].is_anonymous /\ comments[c].author_id \notin {NULL, caller})
                     => CommentsRead(PostedBy(comments, c, w), caller, q) = resp'.arg[1]
      ]_vars

====
